---- MODULE Spec2Model ----
(***************************************************************************)
(* A model of the fetchers of the cross_border repository:                 *)
(*   customer_discovery/search_places.py      (search_and_save)            *)
(*   customer_discovery/google_maps_client.py (GoogleMapsClient)           *)
(*   product_research/shopee.py               (ShopeeScraper)              *)
(*   product_research/google_trends.py        (GoogleTrendsManager)        *)
(*   product_research/amazon_script.py        (AmazonUtils, to_xlsx)       *)
(*   product_research/customs_data_un.py      (get_tariffline_data,        *)
(*                                             expand_month_range)         *)
(* and of its analyses:                                                    *)
(*   product_research/customs_data_cn.py      (CustomsDataAnalyzer)        *)
(*   product_research/customs_data_un.py      (UNComtradeAnalysis)         *)
(*   financial_analysis_system/exchange_rate.py (ExchangeRateManager)      *)
(*   financial_analysis_system/cost_analysis.py (calculate_cost)           *)
(*   utils/plot_config.py                     (plot_world_heatmap)         *)
(* Each script is its own single-threaded process: prog names the program  *)
(* the process runs and pc is the position of its only thread of control.  *)
(* The remote services are the environment: every outbound call draws its  *)
(* outcome (a response, or an exception raised by the client library) from *)
(* a bounded set.                                                          *)
(***************************************************************************)
EXTENDS Integers, Sequences, FiniteSets, TLC

\* ---------------------------------------------------------------- bounds
\* search_places.py:16 sets MAX_REQUESTS = 50; the model runs the same code
\* with a small ceiling, so that exhaustion is reached within the bounds.
MAX_REQUESTS == 1
\* The largest max_calls a GoogleMapsClient is constructed with.
MaxCalls == 2
\* The places source offers at most MaxPages pages of at most MaxPlaces places.
MaxPages == 2
MaxPlaces == 2
\* search_and_save is invoked at most MaxRuns times in one process.
MaxRuns == 2
\* GoogleMapsClient.search_places is invoked at most MaxSearches times.
MaxSearches == 4
\* A ShopeeScraper is constructed with at most MaxShopeePages pages; a page
\* holds at most MaxItems items; scrape() is called at most MaxScrapes times
\* and the model stops offering items once results holds MaxShopeeResults.
MaxShopeePages == 2
MaxItems == 2
MaxScrapes == 2
MaxShopeeResults == 2
\* A GoogleTrendsManager has at most MaxKeywords keywords and fetch_trends is
\* called at most MaxFetches times.
MaxKeywords == 2
MaxFetches == 2
\* AmazonScraper.search_products returns at most MaxProducts products.
MaxProducts == 3
\* The customs table that is analysed holds at most MaxRecords records.
MaxRecords == 2
\* plot_country takes head(20); the model takes the same head of a table of
\* fewer groups, so that groups fall outside it.
TOP_N == 1
\* calculate_cost is given at most MaxOrders orders.
MaxOrders == 2
\* While one calculate_cost runs the rate file is rewritten at most
\* MaxRewrites times.
MaxRewrites == 1
\* A table drawn as a heatmap has at most MaxLocations rows.
MaxLocations == 2
\* The month ranges given lie within FirstYear .. FirstYear + MaxYearSpan.
MaxYearSpan == 1
\* get_tariffline_data is given at most MaxCountries countries.
MaxCountries == 2

\* ------------------------------------------------------ program constants
\* Durations are in tenths of a second.
WAIT_TIME == 5
PAGE_DELAY == 20
\* GoogleMapsClient.__init__: cooldown = 1.0.
COOLDOWN == 10
\* GoogleTrendsManager.safe_build_payload: retries = 3, delay = 3.
RETRIES == 3
DELAY == 30

\* get_tariffline_data: time.sleep(0.5) after every query.
QUERY_DELAY == 5

\* Python's None where the other values are positive integers.
None == 0

VARIABLES
    prog,           \* the program this process runs
    pc,             \* position of the thread of control
    slept,          \* time slept since the last outbound call was issued
    lastCall,       \* kind of the last outbound call issued: "none", "nearby", "place", ...
    lastOk,         \* the last outbound call returned (it did not raise)
    \* ---- search_places.py
    request_count,  \* module-level request_count
    places,         \* search_and_save: the current places_nearby response
    idx,            \* position of the for loop in places["results"] (1-based)
    details,        \* the current client.place response
    results,        \* search_and_save: results
    csv,            \* content of the output file: <<"absent">> or <<"rows", seq>>
    pageArg,        \* page_token of the next places_nearby call (None: first page)
    runs,           \* invocations of search_and_save so far in this process
    runCalls,       \* outbound API calls issued by the current run
    exhausted,      \* the current run has found request_count >= MAX_REQUESTS
    requested,      \* page tokens the current run has requested
    detailArg,      \* place_id passed to the last client.place call
    webFetch,       \* what the website fetch of the place just normalized met
    \* ---- google_maps_client.py
    max_calls,      \* GoogleMapsClient.max_calls
    call_count,     \* GoogleMapsClient.call_count
    entryCount,     \* call_count when the current search_places was entered
    gmCalls,        \* outbound calls the client instance has issued
    searches,       \* invocations of search_places so far
    \* ---- shopee.py
    pages,          \* ShopeeScraper.pages
    page,           \* the for loop's page (0-based)
    sh_results,     \* ShopeeScraper.results
    pageItems,      \* data["items"] of the last page that was parsed
    pageReqs,       \* requests issued for each page by the current scrape()
    scrapes,        \* calls of scrape() so far
    sh_csv,         \* the file save_to_csv writes
    \* ---- google_trends.py
    nKw,            \* len(self.keywords)
    kwi,            \* position of the keyword loop (1-based)
    attempt,        \* safe_build_payload: attempt
    builds,         \* build_payload requests issued per keyword by this fetch_trends
    trends_data,    \* fetch_trends: trends_data, a set of columns <<keyword, fetch>>
    trends_csv,     \* the trends CSV file
    region_csv,     \* the region-interest CSV file
    fetching,       \* what the current fetch is: "trends" or "region"
    fetches,        \* calls of fetch_trends so far
    \* ---- amazon_script.py
    products,       \* what scraper.search_products returned
    amz_csv,        \* the file search_by_query writes
    amz_xlsx,       \* the workbook to_xlsx saves: <<"absent">> or <<"sheet", rows, images>>
    \* ---- customs_data_cn.py, customs_data_un.py
    df,             \* self.df: the customs records, in file order
    agg_op,         \* the last analysis method called: "none", "group", "pivot", "top"
    agg_var,        \* the column the last group-by grouped on
    agg_sorted,     \* bool_sorted of the last trade_by_variable
    agg_table,      \* the DataFrame the last group-by or top-N returned, as rows
    pivot,          \* the DataFrame the last pivot returned
    \* ---- exchange_rate.py
    rates_csv,      \* the rate file: <<"absent">> or <<"file", table>>
    fx_call,        \* the last conversion called: op, amount, currency, and the file then
    fx_mid,         \* round trip: what convert_from_cny returned
    fx_out,         \* what the last conversion returned or raised
    \* ---- cost_analysis.py
    product_cols,   \* the columns of the products table main() reads
    logistics_cols, \* the columns of the logistics table main() reads
    order_list,     \* calculate_cost: order_list
    cost_currency,  \* calculate_cost: currency
    oi,             \* position of the order loop (1-based)
    cost_locals,    \* calculate_cost: the CNY figures of the order under way
    converted,      \* the converted, rounded figures of the order under way
    rewrites,       \* times another process rewrote the rate file during this run
    cost_results,   \* calculate_cost: results
    cost_raised,    \* the exception that left calculate_cost, or "none"
    cost_csv,       \* the file cost_summary_<currency>.csv
    \* ---- plot_config.py: plot_world_heatmap
    hm_df,          \* the table a heatmap is drawn of: rows of a location key and a value
    hm_mode,        \* the mode of the last plot_world_heatmap: "none", "names", "iso3"
    hm_fig,         \* the rows handed to px.choropleth: location, value, hover name
    hm_warned,      \* the location keys the [WARN] line printed names
    \* ---- customs_data_un.py: expand_month_range
    mr_start,       \* expand_month_range: start
    mr_end,         \* expand_month_range: end
    mr_year,        \* expand_month_range: year
    mr_month,       \* expand_month_range: month
    mr_result,      \* expand_month_range: result
    \* ---- customs_data_un.py: get_tariffline_data
    tl_countrys,    \* get_tariffline_data: countrys, "all" or a list of country names
    tl_periods,     \* get_tariffline_data: periods_list
    tl_ci,          \* position of the country loop (1-based)
    tl_pi,          \* position of the period loop (1-based)
    tl_queries,     \* the getTarifflineData calls issued: country, reporterCode, period
    tl_frames,      \* len(df_list): the answers that were not empty
    tl_csv          \* the file export_<cmd_code>_<periods>.csv: "absent" or "file"

spVars == <<request_count, places, idx, details, results, csv, pageArg, runs,
            runCalls, exhausted, requested, detailArg, webFetch>>
gmVars == <<max_calls, call_count, entryCount, gmCalls, searches>>
shVars == <<pages, page, sh_results, pageItems, pageReqs, scrapes, sh_csv>>
trVars == <<nKw, kwi, attempt, builds, trends_data, trends_csv, region_csv, fetching,
            fetches>>
azVars == <<products, amz_csv, amz_xlsx>>
cuVars == <<df, agg_op, agg_var, agg_sorted, agg_table, pivot>>
fxVars == <<rates_csv, fx_call, fx_mid, fx_out>>
ccVars == <<product_cols, logistics_cols, order_list, cost_currency, oi, cost_locals,
            converted, rewrites, cost_results, cost_raised, cost_csv>>
hmVars == <<hm_df, hm_mode, hm_fig, hm_warned>>
mrVars == <<mr_start, mr_end, mr_year, mr_month, mr_result>>
tlVars == <<tl_countrys, tl_periods, tl_ci, tl_pi, tl_queries, tl_frames, tl_csv>>
vars == <<prog, pc, slept, lastCall, lastOk, spVars, gmVars, shVars, trVars, azVars,
          cuVars, fxVars, ccVars, hmVars, mrVars, tlVars>>

Programs == {"places", "client", "shopee", "trends", "amazon", "customs", "rates",
             "cost", "heatmap", "months", "tariff"}

\* What the actions of one program leave alone: the other programs' state.
NotPlaces == <<gmVars, shVars, trVars, azVars, cuVars, fxVars, ccVars, hmVars, mrVars, tlVars>>
NotClient == <<spVars, shVars, trVars, azVars, cuVars, fxVars, ccVars, hmVars, mrVars, tlVars>>
NotShopee == <<spVars, gmVars, trVars, azVars, cuVars, fxVars, ccVars, hmVars, mrVars, tlVars>>
NotTrends == <<spVars, gmVars, shVars, azVars, cuVars, fxVars, ccVars, hmVars, mrVars, tlVars>>
NotAmazon == <<spVars, gmVars, shVars, trVars, cuVars, fxVars, ccVars, hmVars, mrVars, tlVars>>
NotCustoms == <<spVars, gmVars, shVars, trVars, azVars, fxVars, ccVars, hmVars, mrVars, tlVars>>
NotRates == <<spVars, gmVars, shVars, trVars, azVars, cuVars, ccVars, hmVars, mrVars, tlVars>>
NotCost == <<spVars, gmVars, shVars, trVars, azVars, cuVars, fxVars, hmVars, mrVars, tlVars>>
NotFinance == <<spVars, gmVars, shVars, trVars, azVars, cuVars, hmVars, mrVars, tlVars>>
NotHeatmap == <<spVars, gmVars, shVars, trVars, azVars, cuVars, fxVars, ccVars, mrVars, tlVars>>
NotMonths == <<spVars, gmVars, shVars, trVars, azVars, cuVars, fxVars, ccVars, hmVars, tlVars>>
NotTariff == <<spVars, gmVars, shVars, trVars, azVars, cuVars, fxVars, ccVars, hmVars, mrVars>>

\* ------------------------------------------------------------ the source
\* A places_nearby response. empty: the response is falsy ({}); token = None:
\* the response has no "next_page_token" key.
NoResponse == [empty |-> TRUE, results |-> <<>>, token |-> None]

\* The page a places_nearby call asks for: the first page when no page_token
\* is passed, else the page the token stands for.
PageOf(arg) == IF arg = None THEN 1 ELSE arg

\* The place ids of page p: position i holds place (p-1)*MaxPlaces + i, or no
\* "place_id" key where has[i] is FALSE.
PlaceSummaries(p, has) ==
    [i \in 1..Len(has) |-> IF has[i] THEN (p - 1) * MaxPlaces + i ELSE None]

BoolSeqs(n) == [1..n -> BOOLEAN]

\* What the source may answer to places_nearby(page_token = arg): an empty
\* response, or up to MaxPlaces places with or without a token for the next
\* page (the last page the source offers has none).
NearbyResponses(arg) ==
    {NoResponse} \cup
    { [empty |-> FALSE, results |-> PlaceSummaries(PageOf(arg), has), token |-> t] :
        has \in UNION {BoolSeqs(n) : n \in 0..MaxPlaces},
        t \in IF PageOf(arg) < MaxPages THEN {None, PageOf(arg) + 1} ELSE {None} }

\* A client.place response: "result" present or not; the result's optional
\* "website" (None or a url, 1) and "geometry".
NoDetails == [result |-> FALSE, website |-> None, geometry |-> FALSE]
PlaceResponses(place_id) ==
    {NoDetails} \cup
    IF place_id = None THEN {}
    ELSE { [result |-> TRUE, website |-> w, geometry |-> g] :
             w \in {None, 1}, g \in BOOLEAN }

\* No website fetch was made.
NoFetch == [kind |-> "none", status |-> 0, emails |-> <<>>]

\* What re.findall may report for a page body: the email-shaped matches
\* (addresses 1 and 2) in the order they occur in the body.
Bodies == {<<>>, <<1>>, <<1, 2>>, <<2, 1>>}

\* What requests.get(url, timeout=5) of a business's website may meet: an
\* exception (no connection, a timeout, a malformed url), or a response with
\* a status code and a body.
FetchOutcomes ==
    {[kind |-> "exception", status |-> 0, emails |-> <<>>]} \cup
    { [kind |-> "response", status |-> st, emails |-> e] :
        st \in {200, 404}, e \in Bodies }

\* The last match of the body returned instead of the first.
extract_email_from_website_Last(outcome) ==
    IF outcome.kind = "response" /\ outcome.status = 200 /\ outcome.emails # <<>>
      THEN outcome.emails[Len(outcome.emails)]
      ELSE None

\* search_places.py:23-39: the first match of the body of a 200 response;
\* None after an exception (caught), another status, or a body without match.
extract_email_from_website(outcome) ==
    IF outcome.kind = "response" /\ outcome.status = 200 /\ outcome.emails # <<>>
      THEN outcome.emails[1]
      ELSE None

\* The website fetched whether the place has one or not.
FetchFor_Always(website) == FetchOutcomes

\* search_places.py:83: the website is fetched only when the detail has one.
FetchFor(website) == IF website = None THEN {NoFetch} ELSE FetchOutcomes

\* The budget check off by one: one call more than the ceiling passes it.
BudgetExhausted_OffByOne(count) == count > MAX_REQUESTS

\* search_places.py:57: the budget check before each place detail call.
BudgetExhausted(count) == count >= MAX_REQUESTS

\* search_places.py:85-94: the row appended for a place detail.
PlaceRecord(place_id, info, email) ==
    [place_id |-> place_id, Website |-> info.website, Email |-> email]

\* ------------------------------------------------------ numbers
\* A float is modelled by the exact rational n / d it stands for (d > 0);
\* the rounding of a double operation, 2^-53 relative, is far below every
\* tolerance checked here.  NaN and None are values of their own, and an
\* exception that leaves a function is the function's outcome.
Num(n, d) == [kind |-> "num", n |-> n, d |-> d]
NaNVal == [kind |-> "nan", n |-> 0, d |-> 1]
NoneVal == [kind |-> "none", n |-> 0, d |-> 1]
Raised(exception) == [kind |-> exception, n |-> 0, d |-> 1]

\* Whether an outcome is an exception.
IsRaised(v) ==
    v.kind \in {"ZeroDivisionError", "TypeError", "IndexError", "KeyError",
                "FileNotFoundError", "ValueError"}

\* The rates a cell of the rate file may hold: 0, 1/8, 3/2, and an empty
\* cell, which pandas reads as NaN.
Rates == {Num(0, 1), Num(1, 8), Num(3, 2), NaNVal}

\* The rate tables: USD is listed with a rate, or not listed.
RateTables == UNION {[S -> Rates] : S \in SUBSET {"USD"}}

\* The states of the rate file exchange_rates.csv.
RateFiles == {<<"absent">>} \cup {<<"file", t>> : t \in RateTables}

\* The currency codes callers pass.
Requested == {"usd", "USD", "EUR"}

\* The amounts callers pass.
Amounts == {0, 1, 3}

\* No conversion has been called.
NoCall == [op |-> "none", amount |-> 0, currency |-> "CNY", file |-> <<"absent">>]

\* The orders calculate_cost is given: SKU 1 and logistics ID 1 are in the
\* tables, SKU 2 and ID 2 are not.
Orders ==
    {o \in [SKU : {1, 2}, quantity : {1, 2}, ship : {1, 2}] :
        (o.SKU = 2 \/ o.ship = 2) => (o.quantity = 1 /\ o.SKU # o.ship)}

\* The columns calculate_cost reads of the products table and of the
\* logistics table (cost_analysis.py:72-79 and 96-102).
ProductColumns == {"SKU", "name", "supplier", "unit_price", "weight"}
LogisticsColumns == {"ID", "company", "mode", "per_piece", "per_kg"}

\* The tables main() may find in products.csv and logistics.csv: every
\* column is there, or one of them is missing.
ProductTables == {ProductColumns} \cup {ProductColumns \ {c} : c \in ProductColumns}
LogisticsTables ==
    {LogisticsColumns} \cup {LogisticsColumns \ {c} : c \in LogisticsColumns}

\* The rate files a cost run meets: none, or USD listed at 1/8 or at 3/2.
CostRateFiles ==
    {<<"absent">>, <<"file", [c \in {"USD"} |-> Num(1, 8)]>>,
     <<"file", [c \in {"USD"} |-> Num(3, 2)]>>}

\* The currencies calculate_cost is asked for.
CostCurrencies == {"USD", "EUR"}

\* calculate_cost has no order under way.
NoLocals == [unit_price_cny |-> 0, shipping_cost_cny |-> 0, total_cost_cny |-> 0,
             cost_per_piece_cny |-> 0, cost_per_kg_cny |-> 0, weight |-> 0]

\* A cost file left by an earlier process.
OldRows == <<[kind |-> "row", SKU |-> 0, quantity |-> 0, unit_price |-> NoneVal,
               cost_per_piece |-> NoneVal, cost_per_kg |-> NoneVal,
               shipping_cost |-> NoneVal, total_cost |-> NoneVal]>>

\* A customs record: the partner it names (None: the cell is empty, NaN in
\* the DataFrame), its period and its measure (the RMB column or primaryValue).
CustomsRecords == [partner : {None, 1, 2}, period : {1, 2}, value : {1, 2}]

\* The tables self.df may hold: up to MaxRecords records in file order.
DataFrames == UNION {[1..n -> CustomsRecords] : n \in 0..MaxRecords}

\* No pivot has been computed.
NoPivot == [index |-> <<>>, columns |-> <<>>, cells |-> <<>>]

\* The location keys of a table to draw.  As country names: 1 is a name
\* country_mapping_cn maps (to the English name 3), 3 is that English name
\* itself, 2 is a name the mapping knows nothing of.  As M49 codes: 1 and 3
\* are in the M49 table, 2 is not (as 0, "World", is not).
LocationKeys == {1, 2, 3}

\* The tables plot_world_heatmap is given: one row per location key (they
\* come out of a group-by), each with a value or an empty value cell.
HeatmapTables ==
    UNION {{t \in [1..n -> [key : LocationKeys, value : {None, 1}]] :
              \A i, j \in 1..n : i # j => t[i].key # t[j].key}
           : n \in 0..MaxLocations}

\* The first year of the month ranges given.
FirstYear == 2025

\* The year-months a month range 'S-E' is given as: YYYYMM, a month at the
\* start, in the middle or at the end of a year.
YearMonths ==
    {y * 100 + m : y \in FirstYear..(FirstYear + MaxYearSpan), m \in {1, 2, 11, 12}}

\* The countrys argument of get_tariffline_data: 'all' (all), or a list of country
\* names; name 1 is a 'Country or Area' of the M49 table, name 2 is not
\* (as 'United States' is not: the table has 'United States of America').
CountryArgs ==
    {[all |-> TRUE, list |-> <<>>]}
      \cup {[all |-> FALSE, list |-> l] :
               l \in UNION {[1..n -> {1, 2}] : n \in 0..MaxCountries}}

\* The periods argument: a range of one month, one across the turn of the
\* year, and one whose start is after its end.
PeriodArgs == {<<202501, 202501>>, <<202512, 202601>>, <<202502, 202501>>}

\* -------------------------------------------------------------- Init
Init ==
    /\ prog \in Programs
    /\ pc = "idle"
    /\ slept = 0
    /\ lastCall = "none"
    /\ lastOk = TRUE
    /\ request_count = 0
    /\ places = NoResponse
    /\ idx = 0
    /\ details = NoDetails
    /\ results = <<>>
    /\ csv = <<"absent">>
    /\ pageArg = None
    /\ runs = 0
    /\ runCalls = 0
    /\ exhausted = FALSE
    /\ requested = {}
    /\ detailArg = None
    /\ webFetch = NoFetch
    /\ max_calls \in IF prog = "client" THEN 0..MaxCalls ELSE {0}
    /\ call_count = 0
    /\ entryCount = 0
    /\ gmCalls = 0
    /\ searches = 0
    /\ pages \in IF prog = "shopee" THEN 0..MaxShopeePages ELSE {0}
    /\ page = 0
    /\ sh_results = <<>>
    /\ pageItems = <<>>
    /\ pageReqs = [p \in 0..(pages - 1) |-> 0]
    /\ scrapes = 0
    /\ sh_csv = <<"absent">>
    /\ nKw \in IF prog = "trends" THEN 1..MaxKeywords ELSE {1}
    /\ kwi = 0
    /\ attempt = 0
    /\ builds = [k \in 1..nKw |-> 0]
    /\ trends_data = {}
    /\ trends_csv = <<"absent">>
    /\ region_csv = <<"absent">>
    /\ fetching = "trends"
    /\ fetches = 0
    /\ products = <<>>
    /\ amz_csv = <<"absent">>
    /\ amz_xlsx = <<"absent">>
    /\ df \in IF prog = "customs" THEN DataFrames ELSE {<<>>}
    /\ agg_op = "none"
    /\ agg_var = "partner"
    /\ agg_sorted = FALSE
    /\ agg_table = <<>>
    /\ pivot = NoPivot
    /\ rates_csv \in IF prog = "rates" THEN RateFiles
                    ELSE IF prog = "cost" THEN CostRateFiles ELSE {<<"absent">>}
    /\ fx_call = NoCall
    /\ fx_mid = NoneVal
    /\ fx_out = NoneVal
    /\ product_cols \in IF prog = "cost" THEN ProductTables ELSE {ProductColumns}
    /\ logistics_cols \in IF prog = "cost" THEN LogisticsTables ELSE {LogisticsColumns}
    /\ order_list = <<>>
    /\ cost_currency = "CNY"
    /\ oi = 0
    /\ cost_locals = NoLocals
    /\ converted = <<>>
    /\ rewrites = 0
    /\ cost_results = <<>>
    /\ cost_raised = "none"
    /\ cost_csv \in IF prog = "cost" THEN {<<"absent">>, <<"rows", OldRows>>}
                   ELSE {<<"absent">>}
    /\ hm_df \in IF prog = "heatmap" THEN HeatmapTables ELSE {<<>>}
    /\ hm_mode = "none"
    /\ hm_fig = <<>>
    /\ hm_warned = {}
    /\ mr_start \in IF prog = "months" THEN YearMonths ELSE {FirstYear * 100 + 1}
    /\ mr_end \in IF prog = "months" THEN YearMonths ELSE {FirstYear * 100 + 1}
    /\ mr_year = 0
    /\ mr_month = 0
    /\ mr_result = <<>>
    /\ tl_countrys \in IF prog = "tariff" THEN CountryArgs
                             ELSE {[all |-> FALSE, list |-> <<>>]}
    /\ tl_periods = <<>>
    /\ tl_ci = 0
    /\ tl_pi = 0
    /\ tl_queries = <<>>
    /\ tl_frames = 0
    /\ tl_csv = "absent"

\* ------------------------------------------------- search_and_save
\* search_places.py:42-51: a call of search_and_save; results = [].
SP_Start ==
    /\ UNCHANGED NotPlaces
    /\ prog = "places"
    /\ pc = "idle"
    /\ runs < MaxRuns
    /\ runs' = runs + 1
    /\ results' = <<>>
    /\ pageArg' = None
    /\ runCalls' = 0
    /\ exhausted' = FALSE
    /\ requested' = {}
    /\ pc' = "sp_nearby"
    /\ UNCHANGED <<prog, slept, lastCall, lastOk, request_count, places, idx, details,
                   csv, detailArg,
                   webFetch>>

\* search_places.py:53 and 99-104: client.places_nearby, the first page or
\* the page of pageArg.  The call is not counted in request_count and is not
\* inside a try: an exception of the client library leaves search_and_save.
SP_PlacesNearby ==
    /\ UNCHANGED NotPlaces
    /\ pc = "sp_nearby"
    /\ runCalls' = runCalls + 1
    /\ requested' = requested \cup {pageArg}
    /\ lastCall' = "nearby"
    /\ slept' = 0
    /\ \/ /\ pc' = "sp_aborted"
          /\ lastOk' = FALSE
          /\ UNCHANGED places
       \/ /\ \E r \in NearbyResponses(pageArg) : places' = r
          /\ lastOk' = TRUE
          /\ pc' = "sp_while"
    /\ UNCHANGED <<prog, request_count, idx, details, results, csv, pageArg, runs,
                   exhausted, detailArg,
                   webFetch>>

\* search_places.py:55: while places.
SP_While ==
    /\ UNCHANGED NotPlaces
    /\ pc = "sp_while"
    /\ IF places.empty
         THEN pc' = "sp_write" /\ UNCHANGED idx
         ELSE pc' = "sp_for" /\ idx' = 1
    /\ UNCHANGED <<prog, slept, lastCall, lastOk, request_count, places, details,
                   results, csv, pageArg, runs, runCalls, exhausted, requested,
                   detailArg,
                   webFetch>>

\* search_places.py:56-59: the next place of the page, and the budget check
\* whose break leaves the for loop only.  The locals of the iteration before
\* are no longer used.
SP_For ==
    /\ UNCHANGED NotPlaces
    /\ pc = "sp_for"
    /\ IF idx > Len(places.results)
         THEN pc' = "sp_page" /\ UNCHANGED exhausted
         ELSE IF BudgetExhausted(request_count)
                THEN pc' = "sp_page" /\ exhausted' = TRUE
                ELSE pc' = "sp_place" /\ UNCHANGED exhausted
    /\ webFetch' = NoFetch
    /\ UNCHANGED <<prog, slept, lastCall, lastOk, request_count, places, idx, details,
                   results, csv, pageArg, runs, runCalls, requested, detailArg>>

\* client.place counted before it is made: a call that raises is counted too.
SP_Place_CountFirst ==
    /\ UNCHANGED NotPlaces
    /\ pc = "sp_place"
    /\ runCalls' = runCalls + 1
    /\ lastCall' = "place"
    /\ slept' = 0
    /\ detailArg' = places.results[idx]
    /\ request_count' = request_count + 1
    /\ \/ /\ pc' = "sp_aborted"
          /\ lastOk' = FALSE
          /\ UNCHANGED details
       \/ /\ \E d \in PlaceResponses(places.results[idx]) : details' = d
          /\ lastOk' = TRUE
          /\ pc' = "sp_sleep"
    /\ UNCHANGED <<prog, places, idx, results, csv, pageArg, runs, exhausted,
                   requested, webFetch>>

\* search_places.py:61-71: place_id = place.get("place_id"); client.place;
\* request_count += 1 once the call has returned.  No try: an exception
\* leaves search_and_save with the counter as it was.
SP_Place ==
    /\ UNCHANGED NotPlaces
    /\ pc = "sp_place"
    /\ runCalls' = runCalls + 1
    /\ lastCall' = "place"
    /\ slept' = 0
    /\ detailArg' = places.results[idx]
    /\ \/ /\ pc' = "sp_aborted"
          /\ lastOk' = FALSE
          /\ UNCHANGED <<details, request_count>>
       \/ /\ \E d \in PlaceResponses(places.results[idx]) : details' = d
          /\ lastOk' = TRUE
          /\ request_count' = request_count + 1
          /\ pc' = "sp_sleep"
    /\ UNCHANGED <<prog, places, idx, results, csv, pageArg, runs, exhausted,
                   requested, webFetch>>

\* search_places.py:72: time.sleep(WAIT_TIME).
SP_Sleep ==
    /\ UNCHANGED NotPlaces
    /\ pc = "sp_sleep"
    /\ slept' = slept + WAIT_TIME
    /\ pc' = "sp_norm"
    /\ UNCHANGED <<prog, lastCall, lastOk, spVars>>

\* search_places.py:76-94: the record of a detail that has "result"; the
\* website is fetched for an email when there is one; info['geometry'] of a
\* result without geometry raises KeyError.
SP_Normalize ==
    /\ UNCHANGED NotPlaces
    /\ pc = "sp_norm"
    /\ IF ~details.result
         THEN /\ idx' = idx + 1
              /\ pc' = "sp_for"
              /\ UNCHANGED <<results, webFetch>>
         ELSE \E f \in FetchFor(details.website) :
                LET email == IF f.kind = "none" THEN None
                             ELSE extract_email_from_website(f)
                IN  /\ webFetch' = f
                    /\ IF ~details.geometry
                         THEN pc' = "sp_aborted" /\ UNCHANGED <<results, idx>>
                         ELSE /\ results' = Append(results,
                                     PlaceRecord(places.results[idx], details, email))
                              /\ idx' = idx + 1
                              /\ pc' = "sp_for"
    /\ UNCHANGED <<prog, slept, lastCall, lastOk, request_count, places, details, csv,
                   pageArg, runs, runCalls, exhausted, requested, detailArg>>

\* search_places.py:97-106: a next page when the response carries a token.
SP_Page ==
    /\ UNCHANGED NotPlaces
    /\ pc = "sp_page"
    /\ pc' = IF places.token # None THEN "sp_pagesleep" ELSE "sp_write"
    /\ UNCHANGED <<prog, slept, lastCall, lastOk, spVars>>

\* The next page asked for at once, without the page delay.
SP_PageSleep_NoDelay ==
    /\ UNCHANGED NotPlaces
    /\ pc = "sp_pagesleep"
    /\ pageArg' = places.token
    /\ pc' = "sp_nearby"
    /\ UNCHANGED <<prog, slept, lastCall, lastOk, request_count, places, idx, details,
                   results, csv, runs, runCalls, exhausted, requested, detailArg,
                   webFetch>>

\* search_places.py:98-103: time.sleep(2), then the token of this response
\* is passed as page_token.
SP_PageSleep ==
    /\ UNCHANGED NotPlaces
    /\ pc = "sp_pagesleep"
    /\ slept' = slept + PAGE_DELAY
    /\ pageArg' = places.token
    /\ pc' = "sp_nearby"
    /\ UNCHANGED <<prog, lastCall, lastOk, request_count, places, idx, details,
                   results, csv, runs, runCalls, exhausted, requested, detailArg,
                   webFetch>>

\* search_places.py:108-110: the rows are written to the output file.
SP_Write ==
    /\ UNCHANGED NotPlaces
    /\ pc = "sp_write"
    /\ csv' = <<"rows", results>>
    /\ pc' = "sp_done"
    /\ UNCHANGED <<prog, slept, lastCall, lastOk, request_count, places, idx, details,
                   results, pageArg, runs, runCalls, exhausted, requested, detailArg,
                   webFetch>>

\* search_places.py:110 (return) or an exception leaving search_and_save:
\* control is back in the caller and the locals of the call are gone; the
\* module-level counter and the output file stay.
SP_Return ==
    /\ UNCHANGED NotPlaces
    /\ pc \in {"sp_done", "sp_aborted"}
    /\ pc' = "idle"
    /\ places' = NoResponse
    /\ idx' = 0
    /\ details' = NoDetails
    /\ results' = <<>>
    /\ pageArg' = None
    /\ runCalls' = 0
    /\ exhausted' = FALSE
    /\ requested' = {}
    /\ detailArg' = None
    /\ webFetch' = NoFetch
    /\ UNCHANGED <<prog, slept, lastCall, lastOk, request_count, csv, runs>>

\* ------------------------------------------------- GoogleMapsClient
\* google_maps_client.py:39-46: a call of search_places.
GM_SearchPlaces ==
    /\ UNCHANGED NotClient
    /\ prog = "client"
    /\ pc \in {"idle", "gm_returned", "gm_limit_error", "gm_api_error"}
    /\ searches < MaxSearches
    /\ searches' = searches + 1
    /\ entryCount' = call_count
    /\ pc' = "gm_check"
    /\ UNCHANGED <<prog, slept, lastCall, lastOk, max_calls, call_count, gmCalls>>

\* _check_limit that returns at the ceiling instead of raising: the call goes on.
GM_CheckLimit_Silent ==
    /\ UNCHANGED NotClient
    /\ pc = "gm_check"
    /\ pc' = "gm_call"
    /\ call_count' = IF call_count >= max_calls THEN call_count ELSE call_count + 1
    /\ UNCHANGED <<prog, slept, lastCall, lastOk, max_calls, entryCount, gmCalls, searches>>

\* google_maps_client.py:31-37: _check_limit raises RuntimeError at the
\* ceiling, and counts the call before it is made otherwise.
GM_CheckLimit ==
    /\ UNCHANGED NotClient
    /\ pc = "gm_check"
    /\ IF call_count >= max_calls
         THEN pc' = "gm_limit_error" /\ UNCHANGED call_count
         ELSE pc' = "gm_call" /\ call_count' = call_count + 1
    /\ UNCHANGED <<prog, slept, lastCall, lastOk, max_calls, entryCount, gmCalls, searches>>

\* google_maps_client.py:49-53: client.places_nearby; an exception of the
\* client library reaches the caller of search_places.
GM_PlacesNearby ==
    /\ UNCHANGED NotClient
    /\ pc = "gm_call"
    /\ gmCalls' = gmCalls + 1
    /\ lastCall' = "nearby"
    /\ slept' = 0
    /\ \E ok \in BOOLEAN : lastOk' = ok /\ pc' = IF ok THEN "gm_sleep" ELSE "gm_api_error"
    /\ UNCHANGED <<prog, max_calls, call_count, entryCount, searches>>

\* google_maps_client.py:55-56: time.sleep(self.cooldown); return.
GM_Sleep ==
    /\ UNCHANGED NotClient
    /\ pc = "gm_sleep"
    /\ slept' = slept + COOLDOWN
    /\ pc' = "gm_returned"
    /\ UNCHANGED <<prog, lastCall, lastOk, gmVars>>

\* ---------------------------------------------------- ShopeeScraper
\* A raw item of data["items"]: its item_basic's "itemid" (None: no such
\* key) and "price" ("absent": no such key, "null": the key holds null,
\* "num": a number).
ShopeeItems(p, n) ==
    { [i \in 1..n |-> [itemid |-> IF has[i] THEN p * MaxItems + i ELSE None,
                       price |-> pr[i]]] :
        has \in BoolSeqs(n), pr \in [1..n -> {"absent", "null", "num"}] }

\* shopee.py:57-66: building the row of an item raises (TypeError) when
\* "price" holds null, as None / 100000 does.
ItemRaises(item) == item.price = "null"

\* shopee.py:58-66: the row appended for an item; an absent price is 0.
ShopeeRecord(item) ==
    [itemid |-> item.itemid, price |-> IF item.price = "num" THEN 1 ELSE 0]

\* A normalizer that drops the items that have no itemid.
RECURSIVE PageRecords_DropNoId(_)
PageRecords_DropNoId(items) ==
    IF items = <<>> \/ ItemRaises(Head(items)) THEN <<>>
    ELSE (IF Head(items).itemid = None THEN <<>> ELSE <<ShopeeRecord(Head(items))>>)
         \o PageRecords_DropNoId(Tail(items))

\* shopee.py:56-69: the rows appended for a page: those of the items before
\* the first one that raises, at which the except clause ends the page.
RECURSIVE PageRecords(_)
PageRecords(items) ==
    IF items = <<>> \/ ItemRaises(Head(items)) THEN <<>>
    ELSE <<ShopeeRecord(Head(items))>> \o PageRecords(Tail(items))

\* shopee.py:38-43: a call of scrape(); self.results is kept.
SH_Scrape ==
    /\ UNCHANGED NotShopee
    /\ prog = "shopee"
    /\ pc \in {"idle", "sh_returned"}
    /\ scrapes < MaxScrapes
    /\ scrapes' = scrapes + 1
    /\ page' = 0
    /\ pageReqs' = [p \in 0..(pages - 1) |-> 0]
    /\ pc' = "sh_for"
    /\ UNCHANGED <<prog, slept, lastCall, lastOk, pages, sh_results, pageItems, sh_csv>>

\* shopee.py:43 and 71: for page in range(self.pages); return self.results.
\* The data of the page before is no longer used.
SH_For ==
    /\ UNCHANGED NotShopee
    /\ pc = "sh_for"
    /\ pc' = IF page < pages THEN "sh_get" ELSE "sh_returned"
    /\ pageItems' = <<>>
    /\ UNCHANGED <<prog, slept, lastCall, lastOk, pages, page, sh_results, pageReqs,
                   scrapes, sh_csv>>

\* shopee.py:51-69: one page: requests.get, raise_for_status, response.json
\* and the item loop, all inside the try whose except clause goes on with the
\* next page.
SH_Get ==
    /\ UNCHANGED NotShopee
    /\ pc = "sh_get"
    /\ pageReqs' = [pageReqs EXCEPT ![page] = @ + 1]
    /\ lastCall' = "shopee"
    /\ slept' = 0
    /\ \/ lastOk' = FALSE /\ UNCHANGED <<sh_results, pageItems>>
       \/ \E n \in 0..MaxItems :
            /\ Len(sh_results) + n <= MaxShopeeResults
            /\ \E items \in ShopeeItems(page, n) :
                 /\ lastOk' = TRUE
                 /\ pageItems' = items
                 /\ sh_results' = sh_results \o PageRecords(items)
    /\ page' = page + 1
    /\ pc' = "sh_for"
    /\ UNCHANGED <<prog, pages, scrapes, sh_csv>>

\* shopee.py:73-93: save_to_csv writes self.results unless it is empty.
SH_SaveToCsv ==
    /\ UNCHANGED NotShopee
    /\ prog = "shopee"
    /\ pc \in {"idle", "sh_returned"}
    /\ sh_csv' = IF sh_results = <<>> THEN sh_csv ELSE <<"rows", sh_results>>
    /\ UNCHANGED <<prog, pc, slept, lastCall, lastOk, pages, page, sh_results, pageItems,
                   pageReqs, scrapes>>

\* ----------------------------------------------- GoogleTrendsManager
\* What a build_payload request may do: return, raise SSLError or
\* ConnectionError, or raise another exception (a read timeout, a response
\* error of pytrends).
BuildOutcomes == {"ok", "connection_error", "other_error"}

\* google_trends.py:59: the exceptions safe_build_payload catches.
Caught(outcome) == outcome = "connection_error"

\* safe_build_payload returning as soon as an attempt has succeeded.
AfterBuildOk_Return(a) == [attempt |-> a, pc |-> "tr_build"]

\* google_trends.py:51-58: what safe_build_payload does after an attempt that
\* returned: nothing leaves the loop, the next attempt follows.
AfterBuildOk(a) == [attempt |-> a + 1, pc |-> "tr_attempt"]

\* The column of keyword k added next to an older column of k.
WithColumn_Appends(data, k, f) == data \cup {<<k, f>>}

\* google_trends.py:105-108: trends_data with the column of keyword k fetched
\* by fetch f: the frame of that column alone when trends_data is empty, the
\* column set (replacing an older one of k) otherwise.
WithColumn(data, k, f) == {c \in data : c[1] # k} \cup {<<k, f>>}

\* google_trends.py:76-84 and 153-161: what a fetch does with the file of
\* an earlier one: it is removed when regenerate, and loaded into the data
\* of this fetch otherwise.
Opened(file, regenerate) ==
    IF regenerate /\ file[1] = "file" THEN [file |-> <<"absent">>, data |-> {}]
    ELSE IF file[1] = "file" THEN [file |-> file, data |-> file[2]]
    ELSE [file |-> file, data |-> {}]

\* google_trends.py:66-86 and 145-161: a call of fetch_trends(regenerate)
\* or of fetch_region_interest(regenerate), each with its own CSV file.
TR_FetchTrends ==
    /\ UNCHANGED NotTrends
    /\ prog = "trends"
    /\ pc \in {"idle", "tr_done", "tr_aborted"}
    /\ fetches < MaxFetches
    /\ fetches' = fetches + 1
    /\ \E regenerate \in BOOLEAN, kind \in {"trends", "region"} :
         /\ fetching' = kind
         /\ IF kind = "trends"
              THEN /\ trends_csv' = Opened(trends_csv, regenerate).file
                   /\ trends_data' = Opened(trends_csv, regenerate).data
                   /\ UNCHANGED region_csv
              ELSE /\ region_csv' = Opened(region_csv, regenerate).file
                   /\ trends_data' = Opened(region_csv, regenerate).data
                   /\ UNCHANGED trends_csv
    /\ kwi' = 1
    /\ builds' = [k \in 1..nKw |-> 0]
    /\ pc' = "tr_for"
    /\ UNCHANGED <<prog, slept, lastCall, lastOk, nKw, attempt>>

\* google_trends.py:89-90 and 49-50: the next keyword; safe_build_payload starts.
TR_For ==
    /\ UNCHANGED NotTrends
    /\ pc = "tr_for"
    /\ IF kwi <= nKw
         THEN pc' = "tr_attempt" /\ attempt' = 1
         ELSE pc' = "tr_save" /\ UNCHANGED attempt
    /\ UNCHANGED <<prog, slept, lastCall, lastOk, nKw, kwi, builds, trends_data, trends_csv,
                   region_csv, fetching, fetches>>

\* google_trends.py:51-63: one attempt of safe_build_payload, or its return
\* once the attempts are used up.
TR_Attempt ==
    /\ UNCHANGED NotTrends
    /\ pc = "tr_attempt"
    /\ IF attempt > RETRIES
         THEN /\ pc' = "tr_build"
              /\ UNCHANGED <<attempt, builds, lastCall, lastOk, slept>>
         ELSE /\ builds' = [builds EXCEPT ![kwi] = @ + 1]
              /\ lastCall' = "build"
              /\ slept' = 0
              /\ \E o \in BuildOutcomes :
                   /\ lastOk' = (o = "ok")
                   /\ IF o = "ok"
                        THEN attempt' = AfterBuildOk(attempt).attempt
                             /\ pc' = AfterBuildOk(attempt).pc
                        ELSE IF Caught(o)
                               THEN pc' = "tr_retry_sleep" /\ UNCHANGED attempt
                               ELSE pc' = "tr_aborted" /\ UNCHANGED attempt
    /\ UNCHANGED <<prog, nKw, kwi, trends_data, trends_csv, region_csv, fetching, fetches>>

\* google_trends.py:60-61: time.sleep(delay), then the next attempt.
TR_RetrySleep ==
    /\ UNCHANGED NotTrends
    /\ pc = "tr_retry_sleep"
    /\ slept' = slept + DELAY
    /\ attempt' = attempt + 1
    /\ pc' = "tr_attempt"
    /\ UNCHANGED <<prog, lastCall, lastOk, nKw, kwi, builds, trends_data, trends_csv,
                   region_csv, fetching, fetches>>

\* google_trends.py:91-95: fetch_trends builds the payload again, outside
\* any try.
TR_Build ==
    /\ UNCHANGED NotTrends
    /\ pc = "tr_build"
    /\ builds' = [builds EXCEPT ![kwi] = @ + 1]
    /\ lastCall' = "build"
    /\ slept' = 0
    /\ \E o \in BuildOutcomes :
         lastOk' = (o = "ok") /\ pc' = IF o = "ok" THEN "tr_interest" ELSE "tr_aborted"
    /\ UNCHANGED <<prog, nKw, kwi, attempt, trends_data, trends_csv, region_csv, fetching,
                   fetches>>

\* google_trends.py:96-108: interest_over_time; an empty frame skips the
\* keyword, another becomes the keyword's column.
TR_Interest ==
    /\ UNCHANGED NotTrends
    /\ pc = "tr_interest"
    /\ lastCall' = "interest"
    /\ slept' = 0
    /\ \E o \in {"error", "empty", "data"} :
         /\ lastOk' = (o # "error")
         /\ IF o = "error"
              THEN pc' = "tr_aborted" /\ UNCHANGED <<kwi, trends_data>>
              ELSE /\ pc' = "tr_for"
                   /\ kwi' = kwi + 1
                   /\ trends_data' = IF o = "empty" THEN trends_data
                                     ELSE WithColumn(trends_data, kwi, fetches)
    /\ UNCHANGED <<prog, nKw, attempt, builds, trends_csv, region_csv, fetching, fetches>>

\* google_trends.py:110-113 and 188-191: the data is written to the CSV file
\* of the fetch.
TR_Save ==
    /\ UNCHANGED NotTrends
    /\ pc = "tr_save"
    /\ IF fetching = "trends"
         THEN trends_csv' = <<"file", trends_data>> /\ UNCHANGED region_csv
         ELSE region_csv' = <<"file", trends_data>> /\ UNCHANGED trends_csv
    /\ pc' = "tr_done"
    /\ UNCHANGED <<prog, slept, lastCall, lastOk, nKw, kwi, attempt, builds, trends_data,
                   fetching, fetches>>

\* ------------------------------------------------------ AmazonUtils
\* What search_products may return: up to MaxProducts products, each with
\* its "asin" or without (None).
ProductLists ==
    UNION { { [i \in 1..n |-> [asin |-> IF has[i] THEN i ELSE None]] :
                has \in BoolSeqs(n) } : n \in 0..MaxProducts }

\* amazon_script.py:65-74: the row written for a product; a missing asin is
\* written as '' (None here).
AmazonRow(item) == [asin |-> item.asin]

\* amazon_script.py:45-76: search_by_query writes one row per product when
\* there are products, and no file otherwise.
AZ_SearchByQuery ==
    /\ UNCHANGED NotAmazon
    /\ prog = "amazon"
    /\ pc \in {"idle", "az_done"}
    /\ \E ps \in ProductLists :
         /\ products' = ps
         /\ amz_csv' = IF ps = <<>> THEN amz_csv
                       ELSE <<"rows", [i \in 1..Len(ps) |-> AmazonRow(ps[i])]>>
    /\ lastCall' = "amazon"
    /\ lastOk' = TRUE
    /\ slept' = 0
    /\ pc' = "az_done"
    /\ UNCHANGED <<prog, amz_xlsx>>

\* amazon_script.py:50-59 less img_url (line 87): the columns of df_new.
DataColumns == <<"asin", "title", "price", "currency", "rating", "reviews_count", "url">>

\* amazon_script.py:89-98: headers; 'reviews_count' 'url' is one string
\* literal, there being no comma between the two.
headers == <<"asin", "title", "price", "currency", "rating", "reviews_counturl", "image">>

\* amazon_script.py:84-85: drop_duplicates(keep=False): every row that
\* occurs more than once goes, all its occurrences.
drop_duplicates(rows) ==
    SelectSeq(rows, LAMBDA r : Cardinality({i \in DOMAIN rows : rows[i] = r}) = 1)

\* amazon_script.py:117: data_row, the values of a row of df_new in column
\* order; the value of a column is written <<column, asin of the row>>.
data_row(row) == [c \in DOMAIN DataColumns |-> <<DataColumns[c], row.asin>>]

\* amazon_script.py:79-122: to_xlsx reads the CSV, writes the header row,
\* then for every row its values (excel.py:210-216: from column 1 on) and
\* its image (excel.py:227-238: anchored at column len(headers)), and saves
\* the workbook.  ExcelImage raises when the image file of a row is not
\* there, and nothing is saved then.
AZ_ToXlsx ==
    /\ UNCHANGED NotAmazon
    /\ prog = "amazon"
    /\ pc = "az_done"
    /\ amz_csv[1] = "rows"
    /\ LET df_new == drop_duplicates(amz_csv[2])
       IN  \E present \in SUBSET (1..Len(df_new)) :
             IF present = 1..Len(df_new)
               THEN /\ amz_xlsx' =
                         <<"sheet",
                           <<headers>> \o [i \in 1..Len(df_new) |-> data_row(df_new[i])],
                           {<<i + 1, Len(headers)>> : i \in 1..Len(df_new)}>>
                    /\ pc' = "az_saved"
               ELSE /\ pc' = "az_raised"
                    /\ UNCHANGED amz_xlsx
    /\ UNCHANGED <<prog, slept, lastCall, lastOk, products, amz_csv>>

\* ------------------------------------------------- customs analyses
\* customs_data_cn.py:84-86, customs_data_un.py:161-169: the measure summed
\* over all records.
RECURSIVE total_export(_)
total_export(d) ==
    IF d = <<>> THEN 0 ELSE Head(d).value + total_export(Tail(d))

\* The ascending sequence of the elements of a finite set of integers.
RECURSIVE SortedSeq(_)
SortedSeq(S) ==
    IF S = {} THEN <<>>
    ELSE LET m == CHOOSE x \in S : \A y \in S : x <= y
         IN  <<m>> \o SortedSeq(S \ {m})

\* The keys in the order in which each first occurs in the records.
RECURSIVE FirstSeen(_, _)
FirstSeen(d, var) ==
    IF d = <<>> THEN <<>>
    ELSE LET k == d[Len(d)][var]
             before == FirstSeen(SubSeq(d, 1, Len(d) - 1), var)
         IN  IF k = None \/ \E i \in DOMAIN before : before[i] = k
               THEN before ELSE Append(before, k)

\* The groups in the order of their first occurrence in the records.
GroupOrder_FirstSeen(d, var) == FirstSeen(d, var)

\* df.groupby(var): the groups are the values of the column, the empty
\* cells left out (dropna=True), in ascending key order (sort=True).
GroupOrder(d, var) == SortedSeq({d[i][var] : i \in DOMAIN d} \ {None})

\* The number of records of a group instead of the sum of their measures.
RECURSIVE GroupSum_Count(_, _, _)
GroupSum_Count(d, var, k) ==
    IF d = <<>> THEN 0
    ELSE (IF Head(d)[var] = k THEN 1 ELSE 0) + GroupSum_Count(Tail(d), var, k)

\* [measure].sum() of one group: the measures of the records whose key is k.
RECURSIVE GroupSum(_, _, _)
GroupSum(d, var, k) ==
    IF d = <<>> THEN 0
    ELSE (IF Head(d)[var] = k THEN Head(d).value ELSE 0) + GroupSum(Tail(d), var, k)

\* customs_data_cn.py:91, customs_data_un.py:172:
\* df.groupby(var)[measure].sum().reset_index(), one row per group.
groupby_sum(d, var) ==
    LET ks == GroupOrder(d, var)
    IN  [i \in 1..Len(ks) |-> [key |-> ks[i], value |-> GroupSum(d, var, ks[i])]]

\* The arrangements of a table's rows.
Arrangements(rows) ==
    { [i \in 1..Len(rows) |-> rows[f[i]]] :
        f \in {g \in [1..Len(rows) -> 1..Len(rows)] :
                 \A i, j \in 1..Len(rows) : i # j => g[i] # g[j]} }

\* customs_data_cn.py:145, customs_data_un.py:174:
\* sort_values(by=measure, ascending=False) with the default kind, quicksort,
\* which is not stable: the rows in descending measure, rows of equal
\* measure in an order the library does not fix.
sort_values(rows) ==
    { a \in Arrangements(rows) :
        \A i \in 1..(Len(a) - 1) : a[i].value >= a[i + 1].value }

\* customs_data_cn.py:147, customs_data_un.py:189: head(n).
head(rows, n) == SubSeq(rows, 1, IF Len(rows) < n THEN Len(rows) ELSE n)

\* customs_data_cn.py:135, customs_data_un.py:183: fill_value=0.
FILL_VALUE == 0

\* customs_data_cn.py:130-136, customs_data_un.py:178-184: pivot_table(index,
\* columns, values, aggfunc='sum', fill_value=0): the records that have both
\* keys are grouped by the pair; one row per row key and one column per
\* column key of these records, a cell without record filled with fill_value.
pivot_table(d, index, columns) ==
    LET both == SelectSeq(d, LAMBDA r : r[index] # None /\ r[columns] # None)
        rs == GroupOrder(both, index)
        cs == GroupOrder(both, columns)
        of(r, c) == SelectSeq(both, LAMBDA x : x[index] = r /\ x[columns] = c)
    IN  [index |-> rs,
         columns |-> cs,
         cells |-> [i \in 1..Len(rs) |->
                      [j \in 1..Len(cs) |->
                         IF of(rs[i], cs[j]) = <<>> THEN FILL_VALUE
                         ELSE total_export(of(rs[i], cs[j]))]]]

\* customs_data_cn.py:88-106, customs_data_un.py:171-175: trade_by_variable:
\* the group-by table, sorted by measure when bool_sorted (trade_by_country,
\* trade_by_month and the like are its unsorted calls on one column).
CU_TradeByVariable ==
    /\ UNCHANGED NotCustoms
    /\ prog = "customs"
    /\ \E var \in {"partner", "period"}, bool_sorted \in BOOLEAN :
         /\ agg_var' = var
         /\ agg_sorted' = bool_sorted
         /\ IF bool_sorted
              THEN \E t \in sort_values(groupby_sum(df, var)) : agg_table' = t
              ELSE agg_table' = groupby_sum(df, var)
    /\ agg_op' = "group"
    /\ pivot' = NoPivot
    /\ UNCHANGED <<prog, pc, slept, lastCall, lastOk, df>>

\* customs_data_cn.py:124-137, customs_data_un.py:177-185:
\* trade_by_month_country / trade_by_two_variable('period', 'partnerDesc').
CU_TradeByTwoVariable ==
    /\ UNCHANGED NotCustoms
    /\ prog = "customs"
    /\ pivot' = pivot_table(df, "period", "partner")
    /\ agg_op' = "pivot"
    /\ agg_table' = <<>>
    /\ UNCHANGED <<prog, pc, slept, lastCall, lastOk, df, agg_var, agg_sorted>>

\* customs_data_cn.py:141-148, customs_data_un.py:187-189: plot_country: the
\* partners' table sorted by measure, and its head.
CU_PlotCountry ==
    /\ UNCHANGED NotCustoms
    /\ prog = "customs"
    /\ \E t \in sort_values(groupby_sum(df, "partner")) :
         agg_table' = head(t, TOP_N)
    /\ agg_op' = "top"
    /\ agg_var' = "partner"
    /\ agg_sorted' = TRUE
    /\ pivot' = NoPivot
    /\ UNCHANGED <<prog, pc, slept, lastCall, lastOk, df>>

\* ------------------------------------------------- plot_world_heatmap
\* plot_config.py:11: country_mapping_cn, the dictionary that takes a Chinese
\* country name to the English one; here it holds the one name 1.
country_mapping_cn == [k \in {1} |-> 3]

\* unsd_m49_infos.py:30: the M49 table's dictionary from M49 code to ISO3
\* code; the ISO3 code of M49 code c is written 20 + c.
iso3 == [c \in {1, 3} |-> 20 + c]

\* unsd_m49_infos.py:29-32: m49_to_iso3: dict.get, None for a code the
\* table does not hold.
m49_to_iso3(code) == IF code \in DOMAIN iso3 THEN iso3[code] ELSE None

\* plot_config.py:406: pd.to_numeric(errors="coerce").fillna(0).
to_numeric(value) == IF value = None THEN 0 ELSE value

\* plot_config.py:393-403 with bool_iso3 False: the names are mapped
\* (country_mapping_cn.get(x, x)) and the names that are no value of the
\* mapping are printed in a [WARN] line.
MappedNames(t) ==
    [i \in 1..Len(t) |->
        IF t[i].key \in DOMAIN country_mapping_cn THEN country_mapping_cn[t[i].key]
        ELSE t[i].key]

Unmatched(t) ==
    {MappedNames(t)[i] : i \in 1..Len(t)}
      \ {country_mapping_cn[k] : k \in DOMAIN country_mapping_cn}

\* plot_config.py:411-419: the table handed to px.choropleth, whose
\* locations are the "country" column.
Figure(t, country) ==
    [i \in 1..Len(t) |->
        [location |-> country[i], value |-> to_numeric(t[i].value),
         hover |-> t[i].key]]

\* plot_config.py:360-442 as customs_data_cn.py:257 and google_trends.py:217
\* call it: plot_world_heatmap on country names.
HM_PlotWorldHeatmap ==
    /\ UNCHANGED NotHeatmap
    /\ prog = "heatmap"
    /\ hm_mode' = "names"
    /\ hm_fig' = Figure(hm_df, MappedNames(hm_df))
    /\ hm_warned' = Unmatched(hm_df)
    /\ UNCHANGED <<prog, pc, slept, lastCall, lastOk, hm_df>>

\* customs_data_un.py:238-260: plot_heatmap replaces the partner codes by
\* m49_to_iso3 of them and calls plot_world_heatmap with bool_iso3 = True
\* (plot_config.py:392-394: the column is taken as it is, nothing is
\* printed).
HM_PlotHeatmap ==
    /\ UNCHANGED NotHeatmap
    /\ prog = "heatmap"
    /\ hm_mode' = "iso3"
    /\ LET codes == [i \in 1..Len(hm_df) |-> m49_to_iso3(hm_df[i].key)]
       IN  hm_fig' = Figure([i \in 1..Len(hm_df) |->
                                [key |-> codes[i], value |-> hm_df[i].value]],
                            codes)
    /\ hm_warned' = {}
    /\ UNCHANGED <<prog, pc, slept, lastCall, lastOk, hm_df>>

\* ------------------------------------------------- expand_month_range
\* The year rolling over once month 12 is reached, which is then left out.
NextMonth_RollsAt12(year, month) ==
    IF month + 1 >= 12 THEN [year |-> year + 1, month |-> 1]
    ELSE [year |-> year, month |-> month + 1]

\* customs_data_un.py:52-56: month += 1, and past 12 the month is 1 of the
\* next year.
NextMonth(year, month) ==
    IF month + 1 > 12 THEN [year |-> year + 1, month |-> 1]
    ELSE [year |-> year, month |-> month + 1]

\* customs_data_un.py:38-43: expand_month_range splits 'S-E' into the two
\* integers and each of them into year and month (divmod by 100).
MR_Expand ==
    /\ UNCHANGED NotMonths
    /\ prog = "months"
    /\ pc = "idle"
    /\ mr_result' = <<>>
    /\ mr_year' = mr_start \div 100
    /\ mr_month' = mr_start % 100
    /\ pc' = "mr_while"
    /\ UNCHANGED <<prog, slept, lastCall, lastOk, mr_start, mr_end>>

\* customs_data_un.py:45-58: one pass of the while loop, or the return.
MR_While ==
    /\ UNCHANGED NotMonths
    /\ pc = "mr_while"
    /\ LET end_year == mr_end \div 100
           end_month == mr_end % 100
       IN  IF mr_year < end_year \/ (mr_year = end_year /\ mr_month <= end_month)
             THEN /\ mr_result' = Append(mr_result, mr_year * 100 + mr_month)
                  /\ mr_year' = NextMonth(mr_year, mr_month).year
                  /\ mr_month' = NextMonth(mr_year, mr_month).month
                  /\ UNCHANGED pc
             ELSE /\ pc' = "mr_done"
                  /\ UNCHANGED <<mr_result, mr_year, mr_month>>
    /\ UNCHANGED <<prog, slept, lastCall, lastOk, mr_start, mr_end>>

\* ------------------------------------------------ get_tariffline_data
\* customs_data_un.py:27-58: expand_month_range as a function of the loop
\* variables: the months from (year, month) to end.
RECURSIVE MonthsFrom(_, _, _)
MonthsFrom(year, month, end) ==
    IF year < end \div 100 \/ (year = end \div 100 /\ month <= end % 100)
      THEN <<year * 100 + month>>
             \o MonthsFrom(NextMonth(year, month).year, NextMonth(year, month).month, end)
      ELSE <<>>

expand_month_range(start, end) == MonthsFrom(start \div 100, start % 100, end)

\* unsd_m49_infos.py:25: country_to_m49; the M49 code of name 1 is 101.
country_to_m49 == [name \in {1} |-> 101]

\* unsd_m49_infos.py:15-27: get_m49_code: dict.get, None for a name the
\* table does not hold.
get_m49_code(country_name) ==
    IF country_name \in DOMAIN country_to_m49 THEN country_to_m49[country_name]
    ELSE None

\* customs_data_un.py:60-69: a call of get_tariffline_data.
TL_GetTarifflineData ==
    /\ UNCHANGED NotTariff
    /\ prog = "tariff"
    /\ pc = "idle"
    /\ \E periods \in PeriodArgs :
         tl_periods' = expand_month_range(periods[1], periods[2])
    /\ tl_ci' = 1
    /\ tl_pi' = 1
    /\ tl_queries' = <<>>
    /\ tl_frames' = 0
    /\ pc' = "tl_for"
    /\ UNCHANGED <<prog, slept, lastCall, lastOk, tl_countrys, tl_csv>>

\* customs_data_un.py:70-94 and 96-123: the next query of the loops: with
\* 'all' one per period without reporter, with a list one per country and
\* period, the reporter being get_m49_code of the country; a frame that is
\* not empty is kept, and 0.5 s are slept.
TL_Query ==
    /\ UNCHANGED NotTariff
    /\ pc = "tl_for"
    /\ LET n == IF tl_countrys.all THEN 1 ELSE Len(tl_countrys.list)
       IN  IF tl_ci > n
             THEN /\ pc' = "tl_concat"
                  /\ UNCHANGED <<tl_ci, tl_pi, tl_queries, tl_frames, slept, lastCall,
                                 lastOk>>
             ELSE IF tl_pi > Len(tl_periods)
               THEN /\ tl_ci' = tl_ci + 1
                    /\ tl_pi' = 1
                    /\ UNCHANGED <<pc, tl_queries, tl_frames, slept, lastCall, lastOk>>
               ELSE /\ tl_queries' =
                         Append(tl_queries,
                                IF tl_countrys.all
                                  THEN [country |-> None, reporterCode |-> None,
                                        period |-> tl_periods[tl_pi]]
                                  ELSE [country |-> tl_countrys.list[tl_ci],
                                        reporterCode |->
                                            get_m49_code(tl_countrys.list[tl_ci]),
                                        period |-> tl_periods[tl_pi]])
                    /\ \E empty \in BOOLEAN :
                         tl_frames' = IF empty THEN tl_frames ELSE tl_frames + 1
                    /\ lastCall' = "tariff"
                    /\ lastOk' = TRUE
                    /\ slept' = QUERY_DELAY
                    /\ tl_pi' = tl_pi + 1
                    /\ UNCHANGED <<pc, tl_ci>>
    /\ UNCHANGED <<prog, tl_countrys, tl_periods, tl_csv>>

\* customs_data_un.py:124-137: the frames are concatenated (pd.concat raises
\* ValueError when there is none) and written.
TL_Save ==
    /\ UNCHANGED NotTariff
    /\ pc = "tl_concat"
    /\ IF tl_frames = 0
         THEN pc' = "tl_raised" /\ UNCHANGED tl_csv
         ELSE pc' = "tl_done" /\ tl_csv' = "file"
    /\ UNCHANGED <<prog, slept, lastCall, lastOk, tl_countrys, tl_periods, tl_ci, tl_pi,
                   tl_queries, tl_frames>>

\* ------------------------------------------------ ExchangeRateManager
\* str.upper() on the currency codes of Requested.
Upper(currency) == IF currency = "usd" THEN "USD" ELSE currency

\* amount * rate on floats; NaN when an operand is NaN.
FMul(a, r) ==
    IF a.kind = "nan" \/ r.kind = "nan" THEN NaNVal
    ELSE Num(a.n * r.n, a.d * r.d)

\* The amount multiplied by the rate where it has to be divided.
FDiv_Multiplies(a, r) ==
    IF a.kind = "nan" \/ r.kind = "nan" THEN NaNVal
    ELSE Num(a.n * r.n, a.d * r.d)

\* amount / rate on floats, the rate a Python float: ZeroDivisionError for a
\* rate of 0, NaN when an operand is NaN.
FDiv(a, r) ==
    IF r.kind = "num" /\ r.n = 0 THEN Raised("ZeroDivisionError")
    ELSE IF a.kind = "nan" \/ r.kind = "nan" THEN NaNVal
    ELSE Num(a.n * r.d, a.d * r.n)

\* A lookup of the rate that raises for a currency the table does not list.
Lookup_Raises(file, currency) ==
    IF file[1] = "absent" THEN Raised("FileNotFoundError")
    ELSE IF Upper(currency) \notin DOMAIN file[2] THEN Raised("KeyError")
    ELSE file[2][Upper(currency)]

\* exchange_rate.py:57-62, 71-80 and 90-99: load_rates and the lookup of the
\* currency's row: None when the file does not exist or no row has the
\* upper-cased code, else the rate as a float.
Lookup(file, currency) ==
    IF file[1] = "absent" THEN NoneVal
    ELSE IF Upper(currency) \notin DOMAIN file[2] THEN NoneVal
    ELSE file[2][Upper(currency)]

\* exchange_rate.py:83-100: convert_from_cny.
convert_from_cny(file, amount, currency) ==
    LET rate == Lookup(file, currency)
    IN  IF rate.kind \in {"num", "nan"} THEN FMul(amount, rate) ELSE rate

\* exchange_rate.py:64-81: convert_to_cny.
convert_to_cny(file, amount, currency) ==
    LET rate == Lookup(file, currency)
    IN  IF rate.kind \in {"num", "nan"} THEN FDiv(amount, rate) ELSE rate

\* exchange_rate.py:110-113: fetch_rates and save_rates: the file is
\* rewritten with the table the rate service answered.
FX_SaveRates ==
    /\ UNCHANGED NotRates
    /\ prog = "rates"
    /\ \E t \in RateTables : rates_csv' = <<"file", t>>
    /\ UNCHANGED <<prog, pc, slept, lastCall, lastOk, fx_call, fx_mid, fx_out>>

\* exchange_rate.py:83-100: a call of convert_from_cny.
FX_ConvertFromCny ==
    /\ UNCHANGED NotRates
    /\ prog = "rates"
    /\ \E a \in Amounts, c \in Requested :
         /\ fx_call' = [op |-> "from_cny", amount |-> a, currency |-> c,
                         file |-> rates_csv]
         /\ fx_out' = convert_from_cny(rates_csv, Num(a, 1), c)
    /\ fx_mid' = NoneVal
    /\ UNCHANGED <<prog, pc, slept, lastCall, lastOk, rates_csv>>

\* exchange_rate.py:64-81: a call of convert_to_cny.
FX_ConvertToCny ==
    /\ UNCHANGED NotRates
    /\ prog = "rates"
    /\ \E a \in Amounts, c \in Requested :
         /\ fx_call' = [op |-> "to_cny", amount |-> a, currency |-> c,
                         file |-> rates_csv]
         /\ fx_out' = convert_to_cny(rates_csv, Num(a, 1), c)
    /\ fx_mid' = NoneVal
    /\ UNCHANGED <<prog, pc, slept, lastCall, lastOk, rates_csv>>

\* exchange_rate.py:64-100: a caller's round trip,
\* convert_to_cny(convert_from_cny(amount, currency), currency).
FX_RoundTrip ==
    /\ UNCHANGED NotRates
    /\ prog = "rates"
    /\ \E a \in Amounts, c \in Requested :
         LET mid == convert_from_cny(rates_csv, Num(a, 1), c)
         IN  /\ fx_call' = [op |-> "round_trip", amount |-> a, currency |-> c,
                         file |-> rates_csv]
             /\ fx_mid' = mid
             /\ fx_out' = convert_to_cny(rates_csv, mid, c)
    /\ UNCHANGED <<prog, pc, slept, lastCall, lastOk, rates_csv>>

\* ----------------------------------------------------- calculate_cost
\* The products table: SKU 1 with its unit price and weight.
products_df == [s \in {1} |-> [unit_price |-> 3, weight |-> 3]]

\* The logistics table: ID 1 with its freight per piece and per kg.
logistics_df == [l \in {1} |-> [per_piece |-> 2, per_kg |-> 1]]

\* round(x, 2) of a float that is not negative, ties to the even hundredth;
\* NaN stays NaN, and round(None, 2) raises TypeError.
Round2(v) ==
    IF v.kind = "none" THEN Raised("TypeError")
    ELSE IF v.kind # "num" THEN v
    ELSE LET q == (100 * v.n) \div v.d
             r == (100 * v.n) % v.d
         IN  Num(IF 2 * r > v.d \/ (2 * r = v.d /\ q % 2 = 1) THEN q + 1 ELSE q, 100)

\* The smaller of the two where the larger is meant.
Max_Min(a, b) == IF a >= b THEN b ELSE a

\* cost_analysis.py:82: max(a, b).
Max(a, b) == IF a >= b THEN a ELSE b

\* cost_analysis.py:32-38: load_products checks these columns.
ProductRequired == {"SKU", "name", "supplier", "unit_price"}

\* cost_analysis.py:43-49: load_logistics checks these columns.
LogisticsRequired == {"ID", "company", "mode", "per_piece", "per_kg"}

\* cost_analysis.py:67-85: the product and the logistics entry of an order
\* are looked up and the costs are computed in CNY.  A column the table
\* lacks raises KeyError, .iloc[0] raises IndexError when no row matches.
OrderLocals(pcols, lcols, order) ==
    IF "SKU" \notin pcols THEN Raised("KeyError")
    ELSE IF order.SKU \notin DOMAIN products_df THEN Raised("IndexError")
    ELSE IF "unit_price" \notin pcols \/ "weight" \notin pcols THEN Raised("KeyError")
    ELSE IF "ID" \notin lcols THEN Raised("KeyError")
    ELSE IF order.ship \notin DOMAIN logistics_df THEN Raised("IndexError")
    ELSE IF "per_piece" \notin lcols \/ "per_kg" \notin lcols THEN Raised("KeyError")
    ELSE
      LET product == products_df[order.SKU]
          logistics == logistics_df[order.ship]
          shipping_cost_cny == Max(logistics.per_piece * order.quantity,
                                   logistics.per_kg * product.weight)
      IN  [kind |-> "locals",
           unit_price_cny |-> product.unit_price,
           shipping_cost_cny |-> shipping_cost_cny,
           total_cost_cny |-> product.unit_price * order.quantity + shipping_cost_cny,
           cost_per_piece_cny |-> logistics.per_piece,
           cost_per_kg_cny |-> logistics.per_kg,
           weight |-> product.weight]

\* cost_analysis.py:88-92: the CNY figures in the order they are converted.
ToConvert(locals) ==
    <<locals.unit_price_cny, locals.shipping_cost_cny, locals.total_cost_cny,
      locals.cost_per_piece_cny, locals.cost_per_kg_cny>>

\* cost_analysis.py:94-108: the row appended for an order.
CostRow(order, conv) ==
    [kind |-> "row",
     SKU |-> order.SKU,
     quantity |-> order.quantity,
     unit_price |-> conv[1],
     shipping_cost |-> conv[2],
     total_cost |-> conv[3],
     cost_per_piece |-> conv[4],
     cost_per_kg |-> conv[5]]

\* cost_analysis.py:119-120, 32-38: main() calls load_products, which raises
\* ValueError when a column it checks is missing.
CC_LoadProducts ==
    /\ UNCHANGED NotCost
    /\ prog = "cost"
    /\ pc = "idle"
    /\ IF ProductRequired \subseteq product_cols
         THEN pc' = "cc_products" /\ UNCHANGED cost_raised
         ELSE pc' = "cc_raised" /\ cost_raised' = "ValueError"
    /\ UNCHANGED <<prog, slept, lastCall, lastOk, product_cols, logistics_cols,
                   order_list, cost_currency, oi, cost_locals, converted, rewrites,
                   cost_results, cost_csv>>

\* cost_analysis.py:121, 43-49: main() calls load_logistics.
CC_LoadLogistics ==
    /\ UNCHANGED NotCost
    /\ pc = "cc_products"
    /\ IF LogisticsRequired \subseteq logistics_cols
         THEN pc' = "cc_loaded" /\ UNCHANGED cost_raised
         ELSE pc' = "cc_raised" /\ cost_raised' = "ValueError"
    /\ UNCHANGED <<prog, slept, lastCall, lastOk, product_cols, logistics_cols,
                   order_list, cost_currency, oi, cost_locals, converted, rewrites,
                   cost_results, cost_csv>>

\* cost_analysis.py:54-64 and 129: a call of calculate_cost; results = [].
CC_CalculateCost ==
    /\ UNCHANGED NotCost
    /\ pc = "cc_loaded"
    /\ \E n \in 0..MaxOrders :
         \E os \in [1..n -> Orders] : order_list' = os
    /\ \E c \in CostCurrencies : cost_currency' = c
    /\ oi' = 1
    /\ cost_results' = <<>>
    /\ pc' = "cc_for"
    /\ UNCHANGED <<prog, slept, lastCall, lastOk, product_cols, logistics_cols,
                   cost_locals, converted, rewrites, cost_raised, cost_csv>>

\* The order loop catching the exception of a lookup and going on to write
\* the rows collected so far.
CC_Order_WritesPartial ==
    /\ UNCHANGED NotCost
    /\ pc = "cc_for"
    /\ IF oi > Len(order_list)
         THEN pc' = "cc_write" /\ UNCHANGED <<cost_locals, cost_raised>>
         ELSE LET locals == OrderLocals(product_cols, logistics_cols, order_list[oi])
              IN  IF IsRaised(locals)
                    THEN /\ pc' = "cc_write"
                         /\ cost_raised' = locals.kind
                         /\ UNCHANGED cost_locals
                    ELSE /\ cost_locals' = [f \in DOMAIN NoLocals |-> locals[f]]
                         /\ pc' = "cc_conv"
                         /\ UNCHANGED cost_raised
    /\ converted' = <<>>
    /\ UNCHANGED <<prog, slept, lastCall, lastOk, product_cols, logistics_cols,
                   order_list, cost_currency, oi, rewrites, cost_results, cost_csv>>

\* cost_analysis.py:66-85: the order loop takes the next order, looks it up
\* and computes its costs in CNY.
CC_Order ==
    /\ UNCHANGED NotCost
    /\ pc = "cc_for"
    /\ IF oi > Len(order_list)
         THEN pc' = "cc_write" /\ UNCHANGED <<cost_locals, cost_raised>>
         ELSE LET locals == OrderLocals(product_cols, logistics_cols, order_list[oi])
              IN  IF IsRaised(locals)
                    THEN /\ pc' = "cc_raised"
                         /\ cost_raised' = locals.kind
                         /\ UNCHANGED cost_locals
                    ELSE /\ cost_locals' = [f \in DOMAIN NoLocals |-> locals[f]]
                         /\ pc' = "cc_conv"
                         /\ UNCHANGED cost_raised
    /\ converted' = <<>>
    /\ UNCHANGED <<prog, slept, lastCall, lastOk, product_cols, logistics_cols,
                   order_list, cost_currency, oi, rewrites, cost_results, cost_csv>>

\* cost_analysis.py:88-108 and exchange_rate.py:83-100: the next of the five
\* conversions of the order: convert_from_cny loads the rate file as it is
\* now, and round(, 2) raises TypeError when it returned None.  After the
\* fifth the row is appended, with the names its product and its logistics
\* entry carry.
CC_Convert ==
    /\ UNCHANGED NotCost
    /\ pc = "cc_conv"
    /\ LET k == Len(converted) + 1
           v == Round2(convert_from_cny(rates_csv, Num(ToConvert(cost_locals)[k], 1),
                                        cost_currency))
           named == /\ {"name", "supplier"} \subseteq product_cols
                    /\ {"company", "mode"} \subseteq logistics_cols
       IN  IF IsRaised(v)
             THEN /\ pc' = "cc_raised"
                  /\ cost_raised' = v.kind
                  /\ UNCHANGED <<converted, cost_results, oi>>
             ELSE /\ converted' = Append(converted, v)
                  /\ IF k < 5
                       THEN UNCHANGED <<cost_results, oi, pc, cost_raised>>
                       ELSE IF named
                         THEN /\ cost_results' =
                                   Append(cost_results,
                                          CostRow(order_list[oi], converted'))
                              /\ oi' = oi + 1
                              /\ pc' = "cc_for"
                              /\ UNCHANGED cost_raised
                         ELSE /\ pc' = "cc_raised"
                              /\ cost_raised' = "KeyError"
                              /\ UNCHANGED <<cost_results, oi>>
    /\ UNCHANGED <<prog, slept, lastCall, lastOk, product_cols, logistics_cols,
                   order_list, cost_currency, cost_locals, rewrites, cost_csv>>

\* exchange_rate.py:52-55: while calculate_cost runs, another process saves
\* the rate file anew (save_rates), or removes it.
CC_RatesRewritten ==
    /\ UNCHANGED NotFinance
    /\ prog = "cost"
    /\ pc = "cc_conv"
    /\ rewrites < MaxRewrites
    /\ \E f \in CostRateFiles \ {rates_csv} : rates_csv' = f
    /\ rewrites' = rewrites + 1
    /\ UNCHANGED <<prog, pc, slept, lastCall, lastOk, fx_call, fx_mid, fx_out,
                   product_cols, logistics_cols, order_list, cost_currency, oi,
                   cost_locals, converted, cost_results, cost_raised, cost_csv>>

\* cost_analysis.py:110-114: the rows are written to cost_summary_<currency>.csv.
CC_Write ==
    /\ UNCHANGED NotCost
    /\ pc = "cc_write"
    /\ cost_csv' = <<"rows", cost_results>>
    /\ pc' = "cc_done"
    /\ UNCHANGED <<prog, slept, lastCall, lastOk, product_cols, logistics_cols,
                   order_list, cost_currency, oi, cost_locals, converted, rewrites,
                   cost_results, cost_raised>>

Next ==
    \/ SP_Start \/ SP_PlacesNearby \/ SP_While \/ SP_For \/ SP_Place \/ SP_Sleep
    \/ SP_Normalize \/ SP_Page \/ SP_PageSleep \/ SP_Write \/ SP_Return
    \/ GM_SearchPlaces \/ GM_CheckLimit \/ GM_PlacesNearby \/ GM_Sleep
    \/ SH_Scrape \/ SH_For \/ SH_Get \/ SH_SaveToCsv
    \/ TR_FetchTrends \/ TR_For \/ TR_Attempt \/ TR_RetrySleep \/ TR_Build
    \/ TR_Interest \/ TR_Save
    \/ AZ_SearchByQuery
    \/ CU_TradeByVariable \/ CU_TradeByTwoVariable \/ CU_PlotCountry
    \/ FX_SaveRates \/ FX_ConvertFromCny \/ FX_ConvertToCny \/ FX_RoundTrip
    \/ CC_LoadProducts \/ CC_LoadLogistics \/ CC_CalculateCost \/ CC_Order
    \/ CC_Convert \/ CC_RatesRewritten \/ CC_Write
    \/ HM_PlotWorldHeatmap \/ HM_PlotHeatmap
    \/ AZ_ToXlsx
    \/ MR_Expand \/ MR_While
    \/ TL_GetTarifflineData \/ TL_Query \/ TL_Save

Spec == Init /\ [][Next]_vars

\* ================================================================ claims
\* A run of search_and_save is under way.
InRun == pc \in {"sp_nearby", "sp_while", "sp_for", "sp_place", "sp_sleep",
                 "sp_norm", "sp_page", "sp_pagesleep", "sp_write"}

\* C1: with ceiling N, the outbound API calls of a run (places_nearby page
\* calls and place detail calls together) never exceed N: MAX_REQUESTS for a
\* run of search_and_save, max_calls for a GoogleMapsClient.
C1_CallsWithinCeiling ==
    /\ prog = "places" => runCalls <= MAX_REQUESTS
    /\ prog = "client" => gmCalls <= max_calls

\* C2: once request_count has reached MAX_REQUESTS inside search_and_save, no
\* outbound call of any kind is issued afterwards in that run.
C2_HaltsAtCeiling ==
    [][(InRun /\ runCalls > 0 /\ request_count >= MAX_REQUESTS)
         => runCalls' = runCalls]_vars

\* C3: both call counters stay within 0..ceiling in every reachable state and
\* no step, of any invocation in the process, decreases or resets them.
C3_CounterBounded ==
    /\ [](/\ 0 <= request_count /\ request_count <= MAX_REQUESTS
          /\ 0 <= call_count /\ call_count <= max_calls)
    /\ [][request_count' >= request_count /\ call_count' >= call_count]_vars

\* C3, its case: a second run of search_and_save in the process finds the
\* counter where the first one left it, at the ceiling.
C3_Witness ==
    /\ prog = "places"
    /\ runs = 2
    /\ pc = "sp_page"
    /\ exhausted
    /\ results = <<>>
    /\ request_count = MAX_REQUESTS

\* C4 as stated: search_places invoked with call_count >= max_calls makes no
\* outbound call and returns a partial result; no exception reaches the caller.
C4_ReturnsAtCeiling ==
    [][(pc = "gm_check" /\ call_count >= max_calls)
         => (gmCalls' = gmCalls /\ pc' = "gm_returned")]_vars

\* C4 amended: search_places invoked with call_count >= max_calls makes no
\* outbound call and changes no counter, and RuntimeError reaches the caller;
\* an outbound call is made only by an invocation that found the counter
\* under the ceiling.
C4_RaisesAtCeiling ==
    /\ [](pc = "gm_limit_error" => (call_count = entryCount /\ call_count >= max_calls))
    /\ [](pc \in {"gm_call", "gm_sleep", "gm_returned", "gm_api_error"}
            => entryCount < max_calls)
    /\ [][(pc = "gm_check" /\ call_count >= max_calls)
            => (pc' = "gm_limit_error" /\ gmCalls' = gmCalls
                /\ call_count' = call_count)]_vars

\* C4, its case: calls were made, then an invocation met the ceiling.
C4_Witness ==
    /\ pc = "gm_limit_error"
    /\ max_calls > 0
    /\ gmCalls = max_calls

\* C5: a run of search_and_save that has exhausted its budget is not aborted:
\* it ends with every record collected written to the CSV, in fetch order.
C5_PartialResultsWritten ==
    (prog = "places" /\ exhausted /\ ~InRun)
        => (pc = "sp_done" /\ csv = <<"rows", results>>)

\* C6 as stated, of the calls the budget guards (client.place in
\* search_and_save, places_nearby in GoogleMapsClient): the counter is
\* incremented by exactly one after a call that returned, the cooldown sleep
\* follows, and a call that raises leaves the counter as it was before it.
C6_CountedAfterSuccess ==
    /\ [](pc = "gm_api_error" => call_count = entryCount)
    /\ [](pc = "gm_returned" => (call_count = entryCount + 1 /\ slept >= COOLDOWN))
    /\ [][pc = "sp_place"
            => request_count' = IF pc' = "sp_aborted" THEN request_count
                                ELSE request_count + 1]_vars

\* An outbound call is about to be issued.
AboutToCall == pc \in {"sp_nearby", "sp_place", "gm_call"}

\* C6 amended: each budgeted call (a place detail call of search_and_save, the
\* places_nearby call of GoogleMapsClient.search_places) moves its counter by
\* exactly one, and once such a call has returned, at least the cooldown is
\* slept before the next outbound call.  search_and_save counts after the
\* call has returned, so a detail call that raises leaves request_count
\* unchanged; GoogleMapsClient counts in _check_limit before the call, so a
\* call that raises stays counted.  The places_nearby calls of
\* search_and_save never move request_count.
C6_CountedOncePerBudgetedCall ==
    /\ [](pc \in {"gm_call", "gm_sleep", "gm_returned", "gm_api_error"}
            => call_count = entryCount + 1)
    /\ [](pc = "gm_returned" => slept >= COOLDOWN)
    /\ []((AboutToCall /\ lastOk /\ lastCall = "place") => slept >= WAIT_TIME)
    /\ []((pc = "gm_call" /\ lastOk /\ lastCall = "nearby") => slept >= COOLDOWN)
    /\ [][pc = "sp_place"
            => request_count' = IF pc' = "sp_aborted" THEN request_count
                                ELSE request_count + 1]_vars
    /\ [][pc = "sp_nearby" => request_count' = request_count]_vars

\* C6, its case: a counted call of GoogleMapsClient has raised, after an
\* earlier one that returned.
C6_Witness ==
    /\ pc = "gm_api_error"
    /\ entryCount = 1
    /\ call_count = 2

\* C7: in search_and_save every places_nearby call after the first carries
\* the next_page_token of the response just before it and is issued only
\* after the page delay, which is longer than WAIT_TIME; the page loop is
\* left for the CSV write exactly when the response is empty or has no
\* token; no page is requested twice in a run.
C7_Paging ==
    /\ PAGE_DELAY > WAIT_TIME
    /\ [](pc = "sp_nearby" /\ pageArg # None
            => /\ ~places.empty
               /\ pageArg = places.token
               /\ lastCall \in {"nearby", "place"}
               /\ slept >= PAGE_DELAY
               /\ pageArg \notin requested)
    /\ [](pc = "sp_nearby" /\ pageArg = None => requested = {})
    /\ [](pc = "sp_write" => (places.empty \/ places.token = None))
    /\ [][pc = "sp_while" => (pc' = "sp_write") = places.empty]_vars
    /\ [][pc = "sp_page" => (pc' = "sp_write") = (places.token = None)]_vars
    /\ [][pc = "sp_page" => (pc' = "sp_pagesleep") = (places.token # None)]_vars
    /\ [][pc = "sp_pagesleep" => (pc' = "sp_nearby" /\ pageArg' = places.token)]_vars

\* C7, its case: the second page is about to be requested after a place
\* detail call on the first.
C7_Witness ==
    /\ pc = "sp_nearby"
    /\ pageArg = 2
    /\ lastCall = "place"
    /\ requested = {None}

\* C8: a transient failure while fetching one page is caught: the page adds
\* no record, the records collected stay, and the fetch goes on with the
\* remaining pages (ShopeeScraper.scrape, search_and_save).
C8_PageFailureCaught ==
    /\ [][(pc = "sh_get" /\ ~lastOk')
            => (pc' = "sh_for" /\ page' = page + 1 /\ sh_results' = sh_results)]_vars
    /\ [][(pc \in {"sp_nearby", "sp_place"} /\ ~lastOk')
            => (InRun' /\ results' = results)]_vars

\* C9 as stated: no outbound request is retried; each logical request (one
\* page, one keyword payload) is issued at most once.
C9_IssuedAtMostOnce ==
    /\ \A k \in DOMAIN builds : builds[k] <= 1
    /\ \A p \in DOMAIN pageReqs : pageReqs[p] <= 1
    /\ (pc = "sp_nearby" => pageArg \notin requested)

\* C9 amended: no outbound request is retried except the Google Trends
\* keyword payload: safe_build_payload issues it RETRIES times, going on to
\* the next attempt after one that returned as after a caught SSLError or
\* ConnectionError (then after sleeping DELAY), and fetch_trends issues it
\* once more, RETRIES + 1 requests for a keyword that is not cut short by
\* an uncaught exception.  A Shopee page and a places page are requested at
\* most once in a scrape() or a run.
C9_OnlyPayloadReissued ==
    /\ \A k \in DOMAIN builds : builds[k] <= RETRIES + 1
    /\ (pc = "tr_attempt" => builds[kwi] = attempt - 1)
    /\ (pc = "tr_retry_sleep" => (builds[kwi] = attempt /\ ~lastOk))
    /\ (pc = "tr_build" => builds[kwi] = RETRIES)
    /\ (pc = "tr_interest" => builds[kwi] = RETRIES + 1)
    /\ \A p \in DOMAIN pageReqs : pageReqs[p] <= 1
    /\ (pc = "sp_nearby" => pageArg \notin requested)

\* C9, its case: a keyword's payload has been requested RETRIES + 1 times,
\* every one of them answered.
C9_Witness ==
    /\ pc = "tr_interest"
    /\ builds[kwi] = RETRIES + 1
    /\ slept = 0
    /\ lastOk

\* The rows a page of raw Shopee items leaves in results: one per item up
\* to the first whose price is null.
RECURSIVE GoodPrefix(_)
GoodPrefix(items) ==
    IF items = <<>> \/ Head(items).price = "null" THEN 0
    ELSE 1 + GoodPrefix(Tail(items))

\* The last n elements of a sequence.
LastN(seq, n) == SubSeq(seq, Len(seq) - n + 1, Len(seq))

\* C10 as stated: a raw item is dropped, with no further work done for it,
\* when its id is missing (place_id, asin, itemid).
C10_DroppedWithoutId ==
    /\ \A i \in DOMAIN sh_results : sh_results[i].itemid # None
    /\ (amz_csv[1] = "rows" => \A i \in DOMAIN amz_csv[2] : amz_csv[2][i].asin # None)
    /\ (pc = "sp_place" => places.results[idx] # None)

\* C10 amended: a missing id never drops a raw item.  A Shopee item or an
\* Amazon product without itemid / asin yields exactly one row like any
\* other, with its id field empty; for a place without place_id the detail
\* call is still issued, with place_id None.  A place yields a row exactly
\* when its detail response has "result" (with "geometry"), and a Shopee item
\* when neither it nor an item before it on its page has a null price.
C10_KeptWithoutId ==
    /\ [](pc = "sh_for" /\ lastOk /\ lastCall = "shopee"
            => /\ Len(sh_results) >= GoodPrefix(pageItems)
               /\ \A i \in 1..GoodPrefix(pageItems) :
                    LastN(sh_results, GoodPrefix(pageItems))[i].itemid
                        = pageItems[i].itemid)
    /\ [][pc = "sh_get" /\ lastOk'
            => Len(sh_results') = Len(sh_results) + GoodPrefix(pageItems')]_vars
    /\ [](pc = "az_done" /\ products # <<>>
            => /\ amz_csv[1] = "rows"
               /\ Len(amz_csv[2]) = Len(products)
               /\ \A i \in DOMAIN products : amz_csv[2][i].asin = products[i].asin)
    /\ [][(pc = "sp_for" /\ idx <= Len(places.results)
             /\ request_count < MAX_REQUESTS) => pc' = "sp_place"]_vars
    /\ [](pc \in {"sp_sleep", "sp_norm"} => detailArg = places.results[idx])
    /\ [][pc = "sp_norm"
            => /\ (pc' = "sp_aborted") = (details.result /\ ~details.geometry)
               /\ (Len(results') = Len(results) + 1)
                     = (details.result /\ details.geometry)
               /\ Len(results') \in {Len(results), Len(results) + 1}]_vars

\* C10, its case: scrape() has appended the row of an item that has no
\* itemid, after the row of one that has.
C10_Witness ==
    /\ pc = "sh_for"
    /\ Len(sh_results) = 2
    /\ sh_results[1].itemid # None
    /\ sh_results[2].itemid = None

C12_OptionalFieldsTolerated ==
    /\ [][(pc = "sp_norm" /\ details.result)
            => (pc' = "sp_for" /\ Len(results') = Len(results) + 1)]_vars
    /\ [][(pc = "sh_get" /\ lastOk')
            => Len(sh_results') = Len(sh_results) + Len(pageItems')]_vars

\* C13: extract_email_from_website propagates no exception and returns None
\* after an exception, a status other than 200 or a body without a match;
\* it returns a value only for a 200 response whose body has a match, and
\* the value is the first match of the body.
C13_ExtractEmailTotal ==
    /\ []((pc = "sp_for" /\ webFetch.kind # "none")
            => LET email == results[Len(results)].Email
               IN  /\ (webFetch.kind = "exception" \/ webFetch.status # 200
                        \/ webFetch.emails = <<>>) => email = None
                   /\ email # None
                        => /\ webFetch.kind = "response"
                           /\ webFetch.status = 200
                           /\ webFetch.emails # <<>>
                           /\ email = Head(webFetch.emails))
    /\ [][(pc = "sp_norm" /\ details.result /\ details.geometry)
            => pc' = "sp_for"]_vars

\* C13, its case: the body of a 200 response holds two different matches
\* and the record carries the first.
C13_Witness ==
    /\ pc = "sp_for"
    /\ webFetch.kind = "response"
    /\ webFetch.status = 200
    /\ webFetch.emails = <<2, 1>>
    /\ results[Len(results)].Email = 2

\* The measures of the records of df at the positions S, summed.
RECURSIVE MeasureOf(_)
MeasureOf(S) ==
    IF S = {} THEN 0
    ELSE LET i == CHOOSE x \in S : TRUE
         IN  df[i].value + MeasureOf(S \ {i})

\* The measure column of a table of rows, summed.
RECURSIVE TableSum(_)
TableSum(rows) ==
    IF rows = <<>> THEN 0 ELSE Head(rows).value + TableSum(Tail(rows))

\* The cells of a pivot, summed.
RECURSIVE CellSum(_)
CellSum(cells) ==
    IF cells = <<>> THEN 0
    ELSE (IF Head(cells) = <<>> THEN 0
          ELSE Head(cells)[1] + CellSum(<<Tail(Head(cells))>>))
         + CellSum(Tail(cells))

\* C14: aggregation is measure-preserving: the measure summed over the rows
\* of a group-by table, or over the cells of a pivot, equals the measure
\* summed over all records, those with a missing grouping key included.
C14_MeasurePreserved ==
    /\ agg_op = "group" => TableSum(agg_table) = total_export(df)
    /\ agg_op = "pivot" => CellSum(pivot.cells) = total_export(df)

\* C15: a group-by table has exactly one row per distinct value of the
\* grouping key, and the row's measure is the sum of the measures of exactly
\* the records with that key.
C15_OneRowPerKey ==
    agg_op = "group"
      => /\ {agg_table[i].key : i \in DOMAIN agg_table}
               = {df[i][agg_var] : i \in DOMAIN df} \ {None}
         /\ \A i, j \in DOMAIN agg_table :
               i # j => agg_table[i].key # agg_table[j].key
         /\ \A i \in DOMAIN agg_table :
               agg_table[i].value
                 = MeasureOf({j \in DOMAIN df : df[j][agg_var] = agg_table[i].key})

\* C15, its case: two records of one partner in different periods, grouped
\* by partner: the partner's one row carries the sum of its two records.
C15_Witness ==
    /\ agg_op = "group"
    /\ agg_var = "partner"
    /\ df = << [partner |-> 2, period |-> 1, value |-> 1],
               [partner |-> 2, period |-> 2, value |-> 2] >>
    /\ agg_table = << [key |-> 2, value |-> 3] >>

\* C16: a pivot has one row per observed row key and one column per observed
\* column key, and the cell of every pair of them is the sum of the measure
\* of the records of that pair, 0 when there is none.
C16_PivotDense ==
    agg_op = "pivot"
      => /\ {pivot.index[i] : i \in DOMAIN pivot.index}
               = {df[k].period : k \in DOMAIN df} \ {None}
         /\ {pivot.columns[j] : j \in DOMAIN pivot.columns}
               = {df[k].partner : k \in DOMAIN df} \ {None}
         /\ Len(pivot.cells) = Len(pivot.index)
         /\ \A i \in DOMAIN pivot.cells :
               /\ Len(pivot.cells[i]) = Len(pivot.columns)
               /\ \A j \in DOMAIN pivot.cells[i] :
                    pivot.cells[i][j]
                      = MeasureOf({k \in DOMAIN df :
                                     /\ df[k].period = pivot.index[i]
                                     /\ df[k].partner = pivot.columns[j]})

\* The rows in descending measure, rows of equal measure in the order they
\* have in the table.
StableDescending(rows) ==
    CHOOSE a \in Arrangements(rows) :
      \A i, j \in DOMAIN a :
        i < j => \/ a[i].value > a[j].value
                 \/ /\ a[i].value = a[j].value
                    /\ \E m, n \in DOMAIN rows :
                         m < n /\ rows[m] = a[i] /\ rows[n] = a[j]

\* C17: top-N selection returns the N rows of largest measure in descending
\* measure order, rows of equal measure in their original group order; so
\* does the sorted trade_by_variable for the whole table.
C17_TopNStable ==
    /\ agg_op = "top"
         => agg_table = head(StableDescending(groupby_sum(df, "partner")), TOP_N)
    /\ (agg_op = "group" /\ agg_sorted)
         => agg_table = StableDescending(groupby_sum(df, agg_var))

\* C18 as stated: an unsorted group-by table has its rows in the order in
\* which each key first occurs in the records.
C18_FirstSeenOrder ==
    (agg_op = "group" /\ ~agg_sorted)
      => [i \in DOMAIN agg_table |-> agg_table[i].key] = FirstSeen(df, agg_var)

\* C18 amended: an unsorted group-by table has its rows in ascending order
\* of the group key, whatever the order in which the keys occur in the
\* records.
C18_AscendingKeyOrder ==
    (agg_op = "group" /\ ~agg_sorted)
      => \A i, j \in DOMAIN agg_table :
            i < j => agg_table[i].key < agg_table[j].key

\* C18, its case: the records name partner 2 before partner 1 and the
\* unsorted table by partner lists partner 1 first.
C18_Witness ==
    /\ agg_op = "group"
    /\ ~agg_sorted
    /\ agg_var = "partner"
    /\ Len(df) >= 2
    /\ df[1].partner = 2
    /\ df[2].partner = 1
    /\ agg_table[1].key = 1
    /\ agg_table[2].key = 2

\* The rate table of the file lists no rate for the currency.
NotListed(file, currency) ==
    file[1] = "file" /\ (IF currency = "usd" THEN "USD" ELSE currency) \notin DOMAIN file[2]

\* C19 as stated: a currency the rate table does not list is a hard error:
\* convert_from_cny and convert_to_cny raise instead of returning, and
\* calculate_cost with such a currency writes no result.
C19_UnlistedRaises ==
    /\ (fx_call.op \in {"from_cny", "to_cny"}
          /\ NotListed(fx_call.file, fx_call.currency)) => IsRaised(fx_out)
    /\ (prog = "cost" /\ NotListed(rates_csv, cost_currency)) => pc # "cc_done"

\* The rate file gives no rate for the currency: it does not exist, or its
\* table does not list the currency.
NoRate(file, currency) == file[1] = "absent" \/ NotListed(file, currency)

\* C19 amended: for a currency the rate table does not list (and when there
\* is no rate file) convert_from_cny and convert_to_cny raise nothing and
\* return None.  In calculate_cost the first conversion that finds no rate
\* for the currency ends the run with TypeError (round(None, 2)): no row is
\* collected from then on and the cost file stays as it was.  When the rate
\* file is the same throughout the run, that is in the first order, unless
\* the lookup of that order raised before (IndexError, KeyError), and no row
\* is ever collected; with an empty order list a file without rows is
\* written.
C19_UnlistedIsNone ==
    /\ []((fx_call.op # "none" /\ NoRate(fx_call.file, fx_call.currency))
            => fx_out = NoneVal)
    /\ [][(pc = "cc_conv" /\ NoRate(rates_csv, cost_currency)
             /\ rates_csv' = rates_csv)
            => /\ pc' = "cc_raised"
               /\ cost_raised' = "TypeError"
               /\ cost_results' = cost_results
               /\ cost_csv' = cost_csv]_vars
    /\ []((prog = "cost" /\ pc \notin {"idle", "cc_products", "cc_loaded"}
             /\ cost_raised # "ValueError"
             /\ rewrites = 0 /\ NoRate(rates_csv, cost_currency))
            => /\ cost_results = <<>>
               /\ oi = 1
               /\ pc \in {"cc_write", "cc_done"} => order_list = <<>>
               /\ pc = "cc_done" => cost_csv = <<"rows", <<>> >>
               /\ pc = "cc_raised"
                    => cost_raised \in {"TypeError", "IndexError", "KeyError"})

\* C19, its case: calculate_cost was called with a currency the table does
\* not list and an order of a known product; TypeError has left it and the
\* cost file of an earlier process is as it was.
C19_Witness ==
    /\ pc = "cc_raised"
    /\ cost_raised = "TypeError"
    /\ NotListed(rates_csv, cost_currency)
    /\ order_list # <<>>
    /\ cost_csv = <<"rows", OldRows>>

\* C20 as stated: for every listed currency and amount, whatever rate the
\* table holds, convert_to_cny(convert_from_cny(X, Y), Y) is X within 1e-6
\* relative error.
C20_RoundTrip ==
    (fx_call.op = "round_trip" /\ fx_call.file[1] = "file"
       /\ ~NotListed(fx_call.file, fx_call.currency))
      => /\ fx_out.kind = "num"
         /\ LET x == fx_call.amount
                diff == fx_out.n - x * fx_out.d
            IN  (IF diff >= 0 THEN diff ELSE 0 - diff) * 1000000 <= x * fx_out.d

\* The rate the file of the last conversion lists for its currency.
RateOf(call) == call.file[2][IF call.currency = "usd" THEN "USD" ELSE call.currency]

\* C20 amended: for a listed currency whose rate is a number other than 0,
\* the round trip returns X within 1e-6 relative error; with a rate of 0
\* convert_to_cny raises ZeroDivisionError, and with an empty rate cell
\* (NaN) the round trip returns NaN.
C20_RoundTripNonZeroRate ==
    (fx_call.op = "round_trip" /\ fx_call.file[1] = "file"
       /\ ~NotListed(fx_call.file, fx_call.currency))
      => LET rate == RateOf(fx_call)
             x == fx_call.amount
             diff == fx_out.n - x * fx_out.d
         IN  /\ (rate.kind = "num" /\ rate.n # 0)
                  => /\ fx_out.kind = "num"
                     /\ (IF diff >= 0 THEN diff ELSE 0 - diff) * 1000000
                          <= x * fx_out.d
             /\ (rate.kind = "num" /\ rate.n = 0)
                  => fx_out.kind = "ZeroDivisionError"
             /\ rate.kind = "nan" => fx_out.kind = "nan"

\* C20, its case: 3 CNY taken to a currency of rate 3/2 and back.
C20_Witness ==
    /\ fx_call.op = "round_trip"
    /\ fx_call.amount = 3
    /\ fx_call.file[1] = "file"
    /\ ~NotListed(fx_call.file, fx_call.currency)
    /\ RateOf(fx_call) = Num(3, 2)
    /\ fx_mid = Num(9, 2)
    /\ fx_out.kind = "num"
    /\ fx_out.n = 3 * fx_out.d

\* C21: a products or logistics table that lacks a column the cost
\* computation reads aborts the run in load_products / load_logistics
\* (ValueError), before calculate_cost is entered.
C21_SchemaViolationFatal ==
    (prog = "cost"
       /\ (product_cols # ProductColumns \/ logistics_cols # LogisticsColumns))
      => /\ pc \in {"idle", "cc_products", "cc_raised"}
         /\ pc = "cc_raised" => cost_raised = "ValueError"

\* The five figures convert_from_cny and round(, 2) give for CNY figures
\* when every conversion reads the same rate file.
ConvertedWith(file, locals, currency) ==
    [k \in 1..5 |->
        Round2(convert_from_cny(file, Num(ToConvert(locals)[k], 1), currency))]

\* C24: the rate table is loaded once and read-only thereafter: all the
\* conversions of one calculate_cost run use the rates of a single load, so
\* the figures of every collected row, and those of the order under way, are
\* the ones one and the same rate file gives.
C24_SingleLoad ==
    prog = "cost"
      => \E file \in CostRateFiles :
           /\ \A i \in 1..Len(cost_results) :
                cost_results[i] =
                  CostRow(order_list[i],
                          ConvertedWith(file,
                                        OrderLocals(product_cols, logistics_cols,
                                                    order_list[i]),
                                        cost_currency))
           /\ \A k \in 1..Len(converted) :
                converted[k] = ConvertedWith(file, cost_locals, cost_currency)[k]

\* The CNY figures of the claim for an order: shipping cost is the larger of
\* per-piece freight x quantity and per-kg freight x weight, total cost is
\* unit price x quantity plus shipping cost.
ClaimedShipping(order) ==
    LET by_piece == logistics_df[order.ship].per_piece * order.quantity
        by_kg == logistics_df[order.ship].per_kg * products_df[order.SKU].weight
    IN  IF by_piece >= by_kg THEN by_piece ELSE by_kg

ClaimedTotal(order) ==
    products_df[order.SKU].unit_price * order.quantity + ClaimedShipping(order)

\* The figures of an order under conversion are the claimed CNY figures.
CnyFiguresAsClaimed ==
    pc = "cc_conv"
      => /\ cost_locals.shipping_cost_cny = ClaimedShipping(order_list[oi])
         /\ cost_locals.total_cost_cny = ClaimedTotal(order_list[oi])

\* Hundredths of a rounded figure.
Cents(v) == v.n

\* C27 as stated: the CNY figures are as claimed, and in every output row
\* the total equals unit price x quantity + shipping cost, all three taken
\* in the target currency as the row holds them.
C27_TotalIsSum ==
    /\ CnyFiguresAsClaimed
    /\ \A i \in 1..Len(cost_results) :
         LET row == cost_results[i]
         IN  Cents(row.total_cost)
               = Cents(row.unit_price) * row.quantity + Cents(row.shipping_cost)

\* The rates under which the three figures of a row are the rounded
\* conversions of the order's CNY figures.
RatesOfRow(row, order) ==
    {r \in {Num(0, 1), Num(1, 8), Num(3, 2)} :
        /\ row.unit_price = Round2(FMul(Num(products_df[order.SKU].unit_price, 1), r))
        /\ row.shipping_cost = Round2(FMul(Num(ClaimedShipping(order), 1), r))
        /\ row.total_cost = Round2(FMul(Num(ClaimedTotal(order), 1), r))}

\* C27 amended: the CNY figures are as claimed; every figure of a row is
\* the conversion of its own CNY figure, at the rate read for it, rounded to
\* two decimals; and where the unit price, the shipping cost and the total
\* of a row were converted at one rate, the total is unit price x quantity
\* + shipping cost up to the three roundings: at most (quantity + 2) / 2
\* hundredths apart.
C27_TotalWithinRounding ==
    /\ [](CnyFiguresAsClaimed)
    /\ [][(pc = "cc_conv" /\ rates_csv' = rates_csv /\ converted' # converted)
            => converted'[Len(converted')]
                 = Round2(FMul(Num(ToConvert(cost_locals)[Len(converted')], 1),
                               RateOf([file |-> rates_csv,
                                       currency |-> cost_currency])))]_vars
    /\ [](\A i \in 1..Len(cost_results) :
            LET row == cost_results[i]
                diff == Cents(row.total_cost)
                          - (Cents(row.unit_price) * row.quantity
                               + Cents(row.shipping_cost))
            IN  RatesOfRow(row, order_list[i]) # {}
                  => 2 * (IF diff >= 0 THEN diff ELSE 0 - diff) <= row.quantity + 2)

\* C27, its case: one piece at a rate of 1/8: unit price 0.375 is written as
\* 0.38, shipping cost 0.375 as 0.38 and the total 0.75 as 0.75, not 0.76.
C27_Witness ==
    /\ Len(cost_results) >= 1
    /\ cost_results[1].quantity = 1
    /\ cost_results[1].unit_price = Num(38, 100)
    /\ cost_results[1].shipping_cost = Num(38, 100)
    /\ cost_results[1].total_cost = Num(75, 100)
    /\ RatesOfRow(cost_results[1], order_list[1]) = {Num(1, 8)}

\* An order names a product and a logistics entry the tables hold.
Resolved(order) ==
    order.SKU \in DOMAIN products_df /\ order.ship \in DOMAIN logistics_df

\* C30: calculate_cost is all-or-nothing with respect to its output file.
\* The file changes only in the write after the loop, when every order of
\* order_list has been resolved and converted, and it then holds one row per
\* order in order_list order; an order that names an unknown SKU or
\* logistics ID, or a conversion that yields no value, raises, and a run that
\* has raised leaves the file as it was.
C30_AllOrNothing ==
    /\ [][cost_csv' # cost_csv
            => /\ pc = "cc_write" /\ pc' = "cc_done"
               /\ cost_raised = "none"
               /\ Len(cost_results) = Len(order_list)
               /\ cost_csv' = <<"rows", cost_results>>
               /\ \A i \in 1..Len(order_list) :
                    /\ Resolved(order_list[i])
                    /\ cost_results[i].SKU = order_list[i].SKU
                    /\ cost_results[i].quantity = order_list[i].quantity
                    /\ \A f \in {"unit_price", "shipping_cost", "total_cost",
                                 "cost_per_piece", "cost_per_kg"} :
                         cost_results[i][f].kind = "num"]_vars
    /\ [][(pc = "cc_for" /\ oi <= Len(order_list) /\ ~Resolved(order_list[oi]))
            => (pc' = "cc_raised" /\ cost_raised' \in {"IndexError", "KeyError"})]_vars
    /\ [][(pc = "cc_conv" /\ rates_csv' = rates_csv
             /\ convert_from_cny(rates_csv, Num(1, 1), cost_currency) = NoneVal)
            => (pc' = "cc_raised" /\ cost_raised' = "TypeError")]_vars
    /\ [][pc = "cc_raised" => (pc' = "cc_raised" /\ cost_csv' = cost_csv)]_vars
    /\ [](pc = "cc_done" => cost_csv = <<"rows", cost_results>>)

\* C30, its case: the first order was resolved and converted and its row
\* collected, the second has raised, and the cost file an earlier process
\* left is as it was.
C30_Witness ==
    /\ pc = "cc_raised"
    /\ Len(order_list) = 2
    /\ Len(cost_results) = 1
    /\ cost_csv = <<"rows", OldRows>>

\* The locations px.choropleth knows in a mode: the English country names,
\* or the ISO3 codes.  A row of another location is not drawn.
Recognised(mode) ==
    IF mode = "names" THEN {country_mapping_cn[k] : k \in DOMAIN country_mapping_cn}
    ELSE {iso3[c] : c \in DOMAIN iso3}

\* The location key of a row has no mapping in the mode.
Unmapped(key, mode) ==
    IF mode = "names"
      THEN key \notin DOMAIN country_mapping_cn /\ key \notin Recognised("names")
      ELSE key \notin DOMAIN iso3

\* C22: in both modes of plot_world_heatmap, a row whose location key has no
\* mapping is not among the rows drawn and a warning names it, and the
\* other rows are drawn.
C22_UnmappedDroppedWithWarning ==
    hm_mode # "none"
      => /\ Len(hm_fig) = Len(hm_df)
         /\ \A i \in 1..Len(hm_df) :
              IF Unmapped(hm_df[i].key, hm_mode)
                THEN /\ hm_fig[i].location \notin Recognised(hm_mode)
                     /\ hm_warned # {}
                ELSE hm_fig[i].location \in Recognised(hm_mode)

\* The CSV file of a kind of fetch.
FileOf(kind) == IF kind = "trends" THEN trends_csv ELSE region_csv

\* C23 as stated: the CSV written by fetch_trends / fetch_region_interest
\* holds only data fetched in that invocation, whatever regenerate is and
\* whether or not an earlier file exists.
C23_OnlyThisInvocation ==
    pc = "tr_done"
      => \A c \in FileOf(fetching)[2] : c[2] = fetches

\* C23 amended: a fetch starts from no data when it finds no file or removes
\* it (regenerate), and from the columns of the file otherwise; the file it
\* writes holds the columns fetched in this invocation and, when the file
\* was kept, the older columns of the keywords this invocation got no data
\* for; the other file is left alone.
C23_ThisInvocationOrLoaded ==
    /\ [][(pc # "tr_for" /\ pc' = "tr_for" /\ fetches' # fetches)
            => LET file == IF fetching' = "trends" THEN trends_csv' ELSE region_csv'
               IN  /\ trends_data' = IF file[1] = "file" THEN file[2] ELSE {}
                   /\ file[1] = "file"
                        => (trends_csv' = trends_csv /\ region_csv' = region_csv)]_vars
    /\ [][pc = "tr_save"
            => /\ (fetching = "trends" => region_csv' = region_csv)
               /\ (fetching = "region" => trends_csv' = trends_csv)
               /\ (IF fetching = "trends" THEN trends_csv' ELSE region_csv')[1] = "file"
               /\ \A c \in (IF fetching = "trends" THEN trends_csv' ELSE region_csv')[2] :
                    \/ c[2] = fetches
                    \/ /\ FileOf(fetching)[1] = "file"
                       /\ c \in FileOf(fetching)[2]
                       /\ <<c[1], fetches>>
                            \notin (IF fetching = "trends" THEN trends_csv'
                                    ELSE region_csv')[2]]_vars
    /\ []((pc = "tr_done" /\ fetches = 1)
            => \A c \in FileOf(fetching)[2] : c[2] = 1)

\* C23, its case: a second fetch_region_interest, with regenerate False, has
\* written a file that holds the column of keyword 1 it fetched next to the
\* column of keyword 2 the first invocation fetched.
C23_Witness ==
    /\ pc = "tr_done"
    /\ fetching = "region"
    /\ fetches = 2
    /\ region_csv = <<"file", {<<1, 2>>, <<2, 1>>}>>

\* C25: the sheet to_xlsx saves is header-row-first: row 1 holds one name per
\* written data column, the column's own, and one more for the image; the
\* table row i (counted from 0) is sheet row i + 2, each value under the
\* header of its column; and every row's image is anchored in its row, in
\* the image column, where no data value is.
C25_HeaderRowFirst ==
    amz_xlsx[1] = "sheet"
      => LET rows == amz_xlsx[2]
             images == amz_xlsx[3]
             table == drop_duplicates(amz_csv[2])
             header == rows[1]
         IN  /\ header = DataColumns \o <<"image">>
             /\ Len(rows) = Len(table) + 1
             /\ \A i \in 1..Len(table) :
                  /\ \A c \in DOMAIN rows[i + 1] :
                       /\ rows[i + 1][c][2] = table[i].asin
                       /\ c \in DOMAIN header
                       /\ header[c] = rows[i + 1][c][1]
                  /\ \E c \in DOMAIN header :
                       /\ header[c] = "image"
                       /\ <<i + 1, c>> \in images
                       /\ c \notin DOMAIN rows[i + 1]

\* The number of months from year-month s to year-month e, both included.
MonthsFromTo(s, e) ==
    12 * ((e \div 100) - (s \div 100)) + ((e % 100) - (s % 100)) + 1

\* C26: expand_month_range('S-E') terminates: every pass of its loop adds a
\* month and it never holds more than the months from S to E.  What it
\* returns is empty when S is after E, and else the strictly ascending list
\* of MonthsFromTo(S, E) year-months, the first S, the last E, each with a
\* month part in 1..12 and each the month after the one before it.
C26_ExpandMonthRange ==
    /\ [][(pc = "mr_while" /\ pc' = "mr_while")
            => Len(mr_result') = Len(mr_result) + 1]_vars
    /\ [](pc \in {"mr_while", "mr_done"}
            => Len(mr_result) <= (IF mr_start > mr_end THEN 0
                                  ELSE MonthsFromTo(mr_start, mr_end)))
    /\ [](pc = "mr_done"
            => IF mr_start > mr_end THEN mr_result = <<>>
               ELSE /\ Len(mr_result) = MonthsFromTo(mr_start, mr_end)
                    /\ mr_result[1] = mr_start
                    /\ mr_result[Len(mr_result)] = mr_end
                    /\ \A i \in 1..Len(mr_result) : (mr_result[i] % 100) \in 1..12
                    /\ \A i \in 1..(Len(mr_result) - 1) :
                         /\ mr_result[i] < mr_result[i + 1]
                         /\ mr_result[i + 1] =
                              IF (mr_result[i] % 100) = 12 THEN mr_result[i] + 89
                              ELSE mr_result[i] + 1)

\* C26, its case: '202512-202602' has returned [202512, 202601, 202602].
C26_Witness ==
    /\ pc = "mr_done"
    /\ mr_start = 202512
    /\ mr_end = 202602
    /\ mr_result = <<202512, 202601, 202602>>

\* The queries a finished run over a list of countries has issued are, in
\* order, one per country and period: countries in list order, the periods
\* ascending within each.
OnePerCountryAndPeriod ==
    /\ Len(tl_queries) = Len(tl_countrys.list) * Len(tl_periods)
    /\ \A i \in 1..Len(tl_periods), j \in 1..Len(tl_periods) :
         i < j => tl_periods[i] < tl_periods[j]
    /\ \A k \in 1..Len(tl_queries) :
         /\ tl_queries[k].country = tl_countrys.list[((k - 1) \div Len(tl_periods)) + 1]
         /\ tl_queries[k].period = tl_periods[((k - 1) % Len(tl_periods)) + 1]

\* C28: given a list of countries, get_tariffline_data issues exactly one
\* query per (country, period), countries in list order and periods
\* ascending within each country, and every query carries as reporterCode
\* the M49 code of its country: none is sent with reporter None.
C28_ReporterIsM49Code ==
    (prog = "tariff" /\ ~tl_countrys.all /\ pc \in {"tl_concat", "tl_done", "tl_raised"})
      => /\ OnePerCountryAndPeriod
         /\ \A k \in 1..Len(tl_queries) :
              /\ tl_queries[k].reporterCode # None
              /\ tl_queries[k].country \in DOMAIN country_to_m49
              /\ tl_queries[k].reporterCode = country_to_m49[tl_queries[k].country]

\* The rows of the items of a page, one for each.
RowsOf(items) == [i \in 1..Len(items) |-> ShopeeRecord(items[i])]

\* C29: ShopeeScraper.results only grows: no step of scrape() or
\* save_to_csv removes or changes a row it holds; every page a call of
\* scrape() receives adds one row for each of its items, in the first call
\* and in every later one on the same instance; save_to_csv writes nothing
\* when the list is empty and else writes every accumulated row.
C29_ResultsAccumulate ==
    /\ [][/\ Len(sh_results') >= Len(sh_results)
          /\ SubSeq(sh_results', 1, Len(sh_results)) = sh_results]_vars
    /\ [][(pc = "sh_get" /\ lastOk')
            => sh_results' = sh_results \o RowsOf(pageItems')]_vars
    /\ [][sh_csv' # sh_csv
            => (sh_results # <<>> /\ sh_csv' = <<"rows", sh_results>>)]_vars
    /\ [](sh_results = <<>> => sh_csv = <<"absent">>)
====
